---- MODULE Spec2Model ----
(***************************************************************************)
(* A model of the feature-encoding and prediction engine of the Paris      *)
(* rental price application (computations.py, utils/helpers.py,            *)
(* utils/constants.py).                                                    *)
(*                                                                         *)
(* Python values are tagged records, so that values of different Python    *)
(* types can be compared: PyInt(3) = [int |-> 3], PyNone = [none |-> TRUE].*)
(* Column names are strings; where the code looks at the characters of a   *)
(* name (startswith, replace, title) the name is taken through Chars, its  *)
(* sequence of characters.  An amenity label is a sequence of characters.  *)
(***************************************************************************)
EXTENDS Integers, Sequences, FiniteSets, TLC

VARIABLES
    model_airbnb_price,    \* computations.py:30, the fitted nightly model
    model_cleaning_costs,  \* computations.py:31
    model_renting_price,   \* computations.py:32
    airbnb_features,       \* computations.py:35, the nightly model's schema
    label_to_amenity_col,  \* computations.py:38
    amenity_col_to_label,  \* computations.py:38
    user_data,             \* the profile dict the caller holds and passes in
    csv_airbnb,            \* data/user_dataset_airbnb.csv
    csv_renting,           \* data/user_dataset_renting.csv
    session_state,         \* st.session_state
    ret,                   \* per function, its last call: arguments and outcome
    peer,                  \* another session of the same server process: its
                           \* profile dict, its st.session_state and its calls
    profiles_json          \* data/profiles.json (login.py:23)

vars == <<model_airbnb_price, model_cleaning_costs, model_renting_price,
          airbnb_features, label_to_amenity_col, amenity_col_to_label,
          user_data, csv_airbnb, csv_renting, session_state, ret, peer,
          profiles_json>>

----------------------------------------------------------------------------
(* Bounds of the model. *)

\* how many fields of the base profile a profile may change or drop
MaxVaried == 2

\* the fitted models tried are numbered 0..MaxSeed
MaxSeed == 1

\* how many fields the profiles of the prediction runs may change or drop
MaxVariedPredict == 1

----------------------------------------------------------------------------
(* Python values. *)

PyNone == [none |-> TRUE]
PyInt(n) == [int |-> n]
PyBool(b) == [bool |-> b]
PyStr(s) == [str |-> s]
PyList(q) == [list |-> q]

IsPyInt(v) == DOMAIN v = {"int"}
IsPyBool(v) == DOMAIN v = {"bool"}
IsPyList(v) == DOMAIN v = {"list"}

\* bool(v)
py_bool(v) ==
    IF IsPyBool(v) THEN v.bool
    ELSE IF IsPyInt(v) THEN v.int # 0
    ELSE IF IsPyList(v) THEN Len(v.list) > 0
    ELSE IF DOMAIN v = {"str"} THEN v.str # ""
    ELSE FALSE

\* int(v) of a number or a boolean
py_int(v) ==
    IF IsPyBool(v) THEN (IF v.bool THEN 1 ELSE 0) ELSE v.int

\* d.get(key, default)
dict_get(d, key, default) == IF key \in DOMAIN d THEN d[key] ELSE default

\* d[key] = value
dict_set(d, key, value) == (key :> value) @@ d

\* {}
EmptyDict == <<>>

Range(s) == {s[i] : i \in DOMAIN s}

\* list.index(x)
IndexOf(s, x) == CHOOSE i \in DOMAIN s : s[i] = x /\ \A j \in 1..(i - 1) : s[j] # x

----------------------------------------------------------------------------
(* utils/constants.py *)

\* a dict with the keys 1..20, in the order of its keys: a sequence
ARRONDISSEMENT_MAP ==
    <<"Arrondissement_1er", "Arrondissement_2e", "Arrondissement_3e",
      "Arrondissement_4e", "Arrondissement_5e", "Arrondissement_6e",
      "Arrondissement_7e", "Arrondissement_8e", "Arrondissement_9e",
      "Arrondissement_10e", "Arrondissement_11e", "Arrondissement_12e",
      "Arrondissement_13e", "Arrondissement_14e", "Arrondissement_15e",
      "Arrondissement_16e", "Arrondissement_17e", "Arrondissement_18e",
      "Arrondissement_19e", "Arrondissement_20e">>

INSEE_MAP ==
    <<75101, 75102, 75103, 75104, 75105, 75106, 75107, 75108, 75109, 75110,
      75111, 75112, 75113, 75114, 75115, 75116, 75117, 75118, 75119, 75120>>

\* list(ARRONDISSEMENT_MAP.values()): a dict keeps insertion order
ARRONDISSEMENT_COLUMNS == ARRONDISSEMENT_MAP

\* the names in ARRONDISSEMENT_COLUMNS, for "c in ARRONDISSEMENT_COLUMNS"
ArrondissementColumnSet == Range(ARRONDISSEMENT_COLUMNS)

MEDIAN_ARRONDISSEMENT == 10

----------------------------------------------------------------------------
(* Characters of the column names the model uses.  The three characters    *)
(* of the "special dash fix" literal (U+00E2, U+20AC, U+201C) are written  *)
(* "a^", "EUR" and "LDQ"; "A^" is U+00C2, the upper case of U+00E2.        *)

Chars(c) ==
    CASE c = "host_is_superhost" -> <<"h","o","s","t","_","i","s","_","s","u","p","e","r","h","o","s","t">>
      [] c = "host_listings_count" -> <<"h","o","s","t","_","l","i","s","t","i","n","g","s","_","c","o","u","n","t">>
      [] c = "host_identity_verified" -> <<"h","o","s","t","_","i","d","e","n","t","i","t","y","_","v","e","r","i","f","i","e","d">>
      [] c = "bathrooms_text" -> <<"b","a","t","h","r","o","o","m","s","_","t","e","x","t">>
      [] c = "bedrooms" -> <<"b","e","d","r","o","o","m","s">>
      [] c = "Arrondissement_1er" -> <<"A","r","r","o","n","d","i","s","s","e","m","e","n","t","_","1","e","r">>
      [] c = "Arrondissement_2e" -> <<"A","r","r","o","n","d","i","s","s","e","m","e","n","t","_","2","e">>
      [] c = "Arrondissement_3e" -> <<"A","r","r","o","n","d","i","s","s","e","m","e","n","t","_","3","e">>
      [] c = "Arrondissement_4e" -> <<"A","r","r","o","n","d","i","s","s","e","m","e","n","t","_","4","e">>
      [] c = "Arrondissement_5e" -> <<"A","r","r","o","n","d","i","s","s","e","m","e","n","t","_","5","e">>
      [] c = "Arrondissement_6e" -> <<"A","r","r","o","n","d","i","s","s","e","m","e","n","t","_","6","e">>
      [] c = "Arrondissement_7e" -> <<"A","r","r","o","n","d","i","s","s","e","m","e","n","t","_","7","e">>
      [] c = "Arrondissement_8e" -> <<"A","r","r","o","n","d","i","s","s","e","m","e","n","t","_","8","e">>
      [] c = "Arrondissement_9e" -> <<"A","r","r","o","n","d","i","s","s","e","m","e","n","t","_","9","e">>
      [] c = "Arrondissement_10e" -> <<"A","r","r","o","n","d","i","s","s","e","m","e","n","t","_","1","0","e">>
      [] c = "Arrondissement_11e" -> <<"A","r","r","o","n","d","i","s","s","e","m","e","n","t","_","1","1","e">>
      [] c = "Arrondissement_12e" -> <<"A","r","r","o","n","d","i","s","s","e","m","e","n","t","_","1","2","e">>
      [] c = "Arrondissement_13e" -> <<"A","r","r","o","n","d","i","s","s","e","m","e","n","t","_","1","3","e">>
      [] c = "Arrondissement_14e" -> <<"A","r","r","o","n","d","i","s","s","e","m","e","n","t","_","1","4","e">>
      [] c = "Arrondissement_15e" -> <<"A","r","r","o","n","d","i","s","s","e","m","e","n","t","_","1","5","e">>
      [] c = "Arrondissement_16e" -> <<"A","r","r","o","n","d","i","s","s","e","m","e","n","t","_","1","6","e">>
      [] c = "Arrondissement_17e" -> <<"A","r","r","o","n","d","i","s","s","e","m","e","n","t","_","1","7","e">>
      [] c = "Arrondissement_18e" -> <<"A","r","r","o","n","d","i","s","s","e","m","e","n","t","_","1","8","e">>
      [] c = "Arrondissement_19e" -> <<"A","r","r","o","n","d","i","s","s","e","m","e","n","t","_","1","9","e">>
      [] c = "Arrondissement_20e" -> <<"A","r","r","o","n","d","i","s","s","e","m","e","n","t","_","2","0","e">>
      [] c = "room_Entire home/apt" -> <<"r","o","o","m","_","E","n","t","i","r","e"," ","h","o","m","e","/","a","p","t">>
      [] c = "room_Hotel room" -> <<"r","o","o","m","_","H","o","t","e","l"," ","r","o","o","m">>
      [] c = "room_Private room" -> <<"r","o","o","m","_","P","r","i","v","a","t","e"," ","r","o","o","m">>
      [] c = "room_Shared room" -> <<"r","o","o","m","_","S","h","a","r","e","d"," ","r","o","o","m">>
      [] c = "amenity__wifi" -> <<"a","m","e","n","i","t","y","_","_","w","i","f","i">>
      [] c = "amenity__hot_tub" -> <<"a","m","e","n","i","t","y","_","_","h","o","t","_","t","u","b">>
      [] c = "amenity__wifi_" -> <<"a","m","e","n","i","t","y","_","_","w","i","f","i","_">>
      [] c = "amenity__tv_u2013_hd" -> <<"a","m","e","n","i","t","y","_","_","t","v","_","u","2","0","1","3","_","h","d">>
      [] c = "amenity_count" -> <<"a","m","e","n","i","t","y","_","c","o","u","n","t">>

LowerCase == <<"a","b","c","d","e","f","g","h","i","j","k","l","m",
               "n","o","p","q","r","s","t","u","v","w","x","y","z","a^">>
UpperCase == <<"A","B","C","D","E","F","G","H","I","J","K","L","M",
               "N","O","P","Q","R","S","T","U","V","W","X","Y","Z","A^">>

IsCased(ch) == ch \in Range(LowerCase) \cup Range(UpperCase)
ToUpper(ch) == IF ch \in Range(LowerCase) THEN UpperCase[IndexOf(LowerCase, ch)] ELSE ch
ToLower(ch) == IF ch \in Range(UpperCase) THEN LowerCase[IndexOf(UpperCase, ch)] ELSE ch

\* s.startswith(prefix)
StartsWith(s, prefix) ==
    Len(s) >= Len(prefix) /\ SubSeq(s, 1, Len(prefix)) = prefix

\* s.replace(old, new): every non-overlapping occurrence, from the left
RECURSIVE StrReplace(_, _, _)
StrReplace(s, old, new) ==
    IF Len(s) = 0 THEN <<>>
    ELSE IF StartsWith(s, old)
         THEN new \o StrReplace(SubSeq(s, Len(old) + 1, Len(s)), old, new)
         ELSE <<Head(s)>> \o StrReplace(Tail(s), old, new)

\* s.rstrip(ch)
RECURSIVE RStrip(_, _)
RStrip(s, ch) ==
    IF Len(s) > 0 /\ s[Len(s)] = ch THEN RStrip(SubSeq(s, 1, Len(s) - 1), ch) ELSE s

\* s.lstrip(ch)
RECURSIVE LStrip(_, _)
LStrip(s, ch) ==
    IF Len(s) > 0 /\ s[1] = ch THEN LStrip(Tail(s), ch) ELSE s

\* s.strip(): the only white space in the names is the blank
Strip(s) == LStrip(RStrip(s, " "), " ")

\* s.title(): a cased character is upper case after an uncased one (or at
\* the start) and lower case after a cased one
RECURSIVE TitleFrom(_, _)
TitleFrom(s, prev_cased) ==
    IF Len(s) = 0 THEN <<>>
    ELSE LET ch == Head(s)
         IN  IF IsCased(ch)
             THEN <<IF prev_cased THEN ToLower(ch) ELSE ToUpper(ch)>>
                      \o TitleFrom(Tail(s), TRUE)
             ELSE <<ch>> \o TitleFrom(Tail(s), FALSE)

Title(s) == TitleFrom(s, FALSE)

AMENITY_PREFIX == <<"a","m","e","n","i","t","y","_","_">>

----------------------------------------------------------------------------
(* utils/helpers.py *)

clean_amenity_name(model_column) ==
    LET name1 == RStrip(StrReplace(Chars(model_column), AMENITY_PREFIX, <<>>), "_")
        name2 == StrReplace(name1, <<"_">>, <<" ">>)
        name3 == StrReplace(name2, <<"u","2","0","1","3">>, <<"a^","EUR","LDQ">>)
    IN  Title(Strip(name3))

\* [c for c in feature_list if c.startswith("amenity__")]
amenity_cols(feature_list) ==
    SelectSeq(feature_list, LAMBDA c : StartsWith(Chars(c), AMENITY_PREFIX))

\* A variant of label_to_col_of in which the first column of a label keeps
\* the entry (what the comprehension would give were an entry never rewritten).
RECURSIVE label_to_col_first(_)
label_to_col_first(cols) ==
    IF Len(cols) = 0 THEN EmptyDict
    ELSE dict_set(label_to_col_first(Tail(cols)),
                  clean_amenity_name(Head(cols)), Head(cols))

\* {clean_amenity_name(c): c for c in amenity_cols}: the entries are written
\* in the order of the columns, a later one over an earlier one of its label
RECURSIVE label_to_col_of(_)
label_to_col_of(cols) ==
    IF Len(cols) = 0 THEN EmptyDict
    ELSE dict_set(label_to_col_of(SubSeq(cols, 1, Len(cols) - 1)),
                  clean_amenity_name(cols[Len(cols)]), cols[Len(cols)])

\* {c: clean_amenity_name(c) for c in amenity_cols}
RECURSIVE col_to_label_of(_)
col_to_label_of(cols) ==
    IF Len(cols) = 0 THEN EmptyDict
    ELSE dict_set(col_to_label_of(SubSeq(cols, 1, Len(cols) - 1)),
                  cols[Len(cols)], clean_amenity_name(cols[Len(cols)]))

\* A variant of label_keys with one label per amenity column, in the order
\* of the columns (the labels col_to_label holds).
RECURSIVE label_keys_each(_)
label_keys_each(cols) ==
    IF Len(cols) = 0 THEN <<>>
    ELSE Append(label_keys_each(SubSeq(cols, 1, Len(cols) - 1)),
                clean_amenity_name(cols[Len(cols)]))

\* list(label_to_col.keys()): a dict keeps a key where it was first written,
\* and a later write of the key changes its value only
RECURSIVE label_keys(_)
label_keys(cols) ==
    IF Len(cols) = 0 THEN <<>>
    ELSE LET before == label_keys(SubSeq(cols, 1, Len(cols) - 1))
             label == clean_amenity_name(cols[Len(cols)])
         IN  IF label \in Range(before) THEN before ELSE Append(before, label)

build_amenity_maps(feature_list) ==
    [label_to_col |-> label_to_col_of(amenity_cols(feature_list)),
     col_to_label |-> col_to_label_of(amenity_cols(feature_list))]

----------------------------------------------------------------------------
(* The schemas a fitted nightly model may declare (feature_names_in_).  The *)
(* model artifact is not part of the repository, so the schema is an input. *)

ScalarCols ==
    <<"host_is_superhost", "host_listings_count", "host_identity_verified",
      "bathrooms_text", "bedrooms">>

\* the one-hot columns in the alphabetical order an encoder emits them
ArrColsSorted ==
    <<"Arrondissement_10e", "Arrondissement_11e", "Arrondissement_12e",
      "Arrondissement_13e", "Arrondissement_14e", "Arrondissement_15e",
      "Arrondissement_16e", "Arrondissement_17e", "Arrondissement_18e",
      "Arrondissement_19e", "Arrondissement_1er", "Arrondissement_20e",
      "Arrondissement_2e", "Arrondissement_3e", "Arrondissement_4e",
      "Arrondissement_5e", "Arrondissement_6e", "Arrondissement_7e",
      "Arrondissement_8e", "Arrondissement_9e">>

ROOM_TYPES == <<"Entire home/apt", "Hotel room", "Private room", "Shared room">>

\* f"room_{rt}"
RoomCol(rt) ==
    CASE rt = "Entire home/apt" -> "room_Entire home/apt"
      [] rt = "Hotel room" -> "room_Hotel room"
      [] rt = "Private room" -> "room_Private room"
      [] rt = "Shared room" -> "room_Shared room"

RoomCols ==
    <<RoomCol("Entire home/apt"), RoomCol("Hotel room"),
      RoomCol("Private room"), RoomCol("Shared room")>>

\* every column group complete, three amenities
SchemaFull ==
    ScalarCols \o ArrColsSorted \o RoomCols
        \o <<"amenity__hot_tub", "amenity__tv_u2013_hd", "amenity__wifi">>

\* two amenity columns that clean to the same label "Wifi"
SchemaCollision ==
    ScalarCols \o ArrColsSorted \o RoomCols
        \o <<"amenity__hot_tub", "amenity__wifi", "amenity__wifi_">>

\* one-hot groups encoded with their first category dropped, and a column
\* whose name only resembles an amenity column
SchemaDropFirst ==
    ScalarCols \o Tail(ArrColsSorted) \o Tail(RoomCols)
        \o <<"amenity_count", "amenity__wifi">>

\* another column order, and no host_listings_count column
SchemaReordered ==
    <<"amenity__wifi", "bedrooms", "bathrooms_text">> \o RoomCols
        \o ARRONDISSEMENT_COLUMNS
        \o <<"host_identity_verified", "amenity__hot_tub", "host_is_superhost">>

Schemas == {SchemaFull, SchemaCollision, SchemaDropFirst, SchemaReordered}

----------------------------------------------------------------------------
(* The profiles handed to the engine: the base profile is what the pages'   *)
(* sidebars send (airbnb_page.py:206-215, renting_page.py:104-108); a       *)
(* profile read from profiles.json may lack fields or hold other values.    *)

Wifi == <<"W","i","f","i">>
HotTub == <<"H","o","t"," ","T","u","b">>
Sauna == <<"S","a","u","n","a">>

ProfileKeys ==
    {"host_is_superhost", "host_listings_count", "host_identity_verified",
     "bathrooms", "bedrooms", "arrondissement", "room_type", "amenities",
     "furnished", "Number of rooms renting"}

BaseProfile ==
    [k \in ProfileKeys |->
        CASE k = "host_is_superhost" -> PyBool(FALSE)
          [] k = "host_listings_count" -> PyInt(0)
          [] k = "host_identity_verified" -> PyBool(FALSE)
          [] k = "bathrooms" -> PyInt(1)
          [] k = "bedrooms" -> PyInt(2)
          [] k = "arrondissement" -> PyInt(10)
          [] k = "room_type" -> PyStr("Entire home/apt")
          [] k = "amenities" -> PyList(<<>>)
          [] k = "furnished" -> PyBool(FALSE)
          [] k = "Number of rooms renting" -> PyInt(2)]

\* the field is not in the dict
Absent == [absent |-> TRUE]

Alternatives(k) ==
    {Absent} \cup
    CASE k = "host_is_superhost" -> {PyBool(TRUE)}
      [] k = "host_listings_count" -> {PyInt(3)}
      [] k = "host_identity_verified" -> {PyBool(TRUE)}
      [] k = "bathrooms" -> {PyInt(2)}
      [] k = "bedrooms" -> {PyInt(3)}
      [] k = "arrondissement" -> {PyInt(1), PyInt(20), PyInt(21)}
      [] k = "room_type" -> {PyStr("Hotel room"), PyStr("Private room"),
                             PyStr("Shared room"), PyStr("Loft")}
      [] k = "amenities" -> {PyNone, PyList(<<Wifi>>), PyList(<<HotTub, Wifi>>),
                             PyList(<<Sauna, HotTub>>)}
      [] k = "furnished" -> {PyBool(TRUE), PyNone}
      [] k = "Number of rooms renting" -> {PyInt(3)}

Vary(p, k, v) ==
    IF v = Absent THEN [x \in DOMAIN p \ {k} |-> p[x]] ELSE dict_set(p, k, v)

RECURSIVE ProfilesVarying(_)
ProfilesVarying(n) ==
    IF n = 0 THEN {BaseProfile}
    ELSE LET prev == ProfilesVarying(n - 1)
         IN  prev \cup UNION {{Vary(p, k, v) : v \in Alternatives(k)} :
                                  p \in prev, k \in ProfileKeys}

Profiles == ProfilesVarying(MaxVaried)

----------------------------------------------------------------------------
(* pandas: a one-row DataFrame is its column names and the row's cells. *)

\* (SubSeq lays the cells out as a tuple once, whatever expression gave them)
DataFrame(row, columns) == [columns |-> columns, row |-> SubSeq(row, 1, Len(columns))]

\* c in df
DfHas(df, c) == c \in Range(df.columns)

\* df[c] of the single row
DfGet(df, c) == df.row[IndexOf(df.columns, c)]

\* df[c] = v: overwrites the column, or appends a new last column
DfAssign(df, c, v) ==
    IF DfHas(df, c)
    THEN DataFrame([i \in DOMAIN df.row |->
                       IF df.columns[i] = c THEN v ELSE df.row[i]], df.columns)
    ELSE DataFrame(Append(df.row, v), Append(df.columns, c))

\* x or default
py_or(x, default) == IF py_bool(x) THEN x ELSE default

----------------------------------------------------------------------------
(* computations.py: feature engineering *)

\* computations.py:113-124 ("e" stands for the accented letters of the names)
rent_features ==
    <<"Nombre de pieces principales">> \o ArrColsSorted
        \o <<"Type de locationom_meuble", "Type de locationom_non meuble">>

\* {name: 0 for name in features}
zero_feat(features) == [name \in Range(features) |-> PyInt(0)]

\* A variant of arrondissement_one_hot that sets no column for a profile
\* without an arrondissement.
arrondissement_one_hot_no_default(feat, user_profile) ==
    IF "arrondissement" \notin DOMAIN user_profile THEN feat
    ELSE LET arr_num == py_int(user_profile["arrondissement"])
         IN  IF arr_num \in DOMAIN ARRONDISSEMENT_MAP
                /\ ARRONDISSEMENT_MAP[arr_num] \in DOMAIN feat
             THEN dict_set(feat, ARRONDISSEMENT_MAP[arr_num], PyInt(1))
             ELSE feat

\* A variant of arrondissement_one_hot that takes a number above 20 for 20.
arrondissement_one_hot_clamped(feat, user_profile) ==
    LET given == py_int(dict_get(user_profile, "arrondissement", PyInt(1)))
        arr_num == IF given > 20 THEN 20 ELSE given
    IN  IF arr_num \in DOMAIN ARRONDISSEMENT_MAP
           /\ ARRONDISSEMENT_MAP[arr_num] \in DOMAIN feat
        THEN dict_set(feat, ARRONDISSEMENT_MAP[arr_num], PyInt(1))
        ELSE feat

\* arr_col = ARRONDISSEMENT_MAP.get(arr_num); if arr_col in feat: feat[arr_col] = 1
\* (get returns None for an unmapped number, and None is no key of feat)
arrondissement_one_hot(feat, user_profile) ==
    LET arr_num == py_int(dict_get(user_profile, "arrondissement", PyInt(1)))
    IN  IF arr_num \in DOMAIN ARRONDISSEMENT_MAP
           /\ ARRONDISSEMENT_MAP[arr_num] \in DOMAIN feat
        THEN dict_set(feat, ARRONDISSEMENT_MAP[arr_num], PyInt(1))
        ELSE feat

\* A variant of room_one_hot that falls back on the default room type when
\* the profile's is none of the four.
room_one_hot_fallback(feat, room_type, i) ==
    LET effective == IF \E rt \in Range(ROOM_TYPES) : room_type = PyStr(rt)
                     THEN room_type ELSE PyStr("Entire home/apt")
    IN  [c \in DOMAIN feat |->
            IF \E rt \in Range(ROOM_TYPES) : c = RoomCol(rt)
            THEN PyInt(IF \E rt \in Range(ROOM_TYPES) :
                              c = RoomCol(rt) /\ effective = PyStr(rt)
                       THEN 1 ELSE 0)
            ELSE feat[c]]

\* for rt in [...]: col = f"room_{rt}"; if col in feat: feat[col] = int(room_type == rt)
RECURSIVE room_one_hot(_, _, _)
room_one_hot(feat, room_type, i) ==
    IF i > Len(ROOM_TYPES) THEN feat
    ELSE LET rt == ROOM_TYPES[i]
             col == RoomCol(rt)
         IN  room_one_hot(
                 IF col \in DOMAIN feat
                 THEN dict_set(feat, col, PyInt(IF room_type = PyStr(rt) THEN 1 ELSE 0))
                 ELSE feat,
                 room_type, i + 1)

\* A variant of amenities_one_hot that goes by the columns: it sets every
\* amenity column whose label is among the profile's.
amenities_one_hot_by_column(feat, labels) ==
    [c \in DOMAIN feat |->
        IF c \in DOMAIN amenity_col_to_label
           /\ amenity_col_to_label[c] \in Range(labels)
        THEN PyInt(1) ELSE feat[c]]

\* for label in ...: model_col = label_to_amenity_col.get(label);
\*                   if model_col in feat: feat[model_col] = 1
RECURSIVE amenities_one_hot(_, _)
amenities_one_hot(feat, labels) ==
    IF Len(labels) = 0 THEN feat
    ELSE LET label == Head(labels)
         IN  amenities_one_hot(
                 IF label \in DOMAIN label_to_amenity_col
                    /\ label_to_amenity_col[label] \in DOMAIN feat
                 THEN dict_set(feat, label_to_amenity_col[label], PyInt(1))
                 ELSE feat,
                 Tail(labels))

\* A variant of feature_row that lays out every key of feat: the columns of
\* the schema, then the scalar keys the schema lacks.
feature_row_all_keys(feat, features) ==
    LET columns == features \o SelectSeq(ScalarCols,
                                   LAMBDA c : c \in DOMAIN feat /\ c \notin Range(features))
    IN  DataFrame([i \in DOMAIN columns |-> feat[columns[i]]], columns)

\* pd.DataFrame([[feat[col] for col in features]], columns=features)
feature_row(feat, features) ==
    DataFrame([i \in DOMAIN features |-> feat[features[i]]], features)

\* The feat dict of build_airbnb_feature_df before it is laid out as a row.
airbnb_feat(user_profile) ==
    LET feat0 == zero_feat(airbnb_features)
        feat1 == dict_set(feat0, "host_is_superhost",
                     PyInt(py_int(PyBool(py_bool(
                         dict_get(user_profile, "host_is_superhost", PyBool(FALSE)))))))
        feat2 == dict_set(feat1, "host_listings_count",
                     PyInt(py_int(dict_get(user_profile, "host_listings_count", PyInt(0)))))
        feat3 == dict_set(feat2, "host_identity_verified",
                     PyInt(py_int(PyBool(py_bool(
                         dict_get(user_profile, "host_identity_verified", PyBool(FALSE)))))))
        feat4 == dict_set(feat3, "bathrooms_text",
                     PyInt(py_int(dict_get(user_profile, "bathrooms", PyInt(1)))))
        feat5 == dict_set(feat4, "bedrooms",
                     PyInt(py_int(dict_get(user_profile, "bedrooms", PyInt(1)))))
        feat6 == arrondissement_one_hot(feat5, user_profile)
        feat7 == room_one_hot(feat6,
                     dict_get(user_profile, "room_type", PyStr("Entire home/apt")), 1)
    IN  amenities_one_hot(feat7,
            py_or(dict_get(user_profile, "amenities", PyList(<<>>)), PyList(<<>>)).list)

\* A variant of build_airbnb_feature_df that takes the amenities out of the
\* dict it is given (user_profile.pop("amenities", None)).
build_airbnb_feature_df_pop(user_profile) ==
    LET df == DataFrame([i \in DOMAIN airbnb_features |->
                            airbnb_feat(user_profile)[airbnb_features[i]]],
                        airbnb_features)
    IN  [df |-> df,
         user_profile |-> [k \in DOMAIN user_profile \ {"amenities"} |-> user_profile[k]],
         csv |-> df]

\* A variant of build_airbnb_feature_df that returns the frame of the debug
\* file when the file holds one (pd.read_csv of what to_csv wrote).
build_airbnb_feature_df_reread(user_profile) ==
    LET df == IF csv_airbnb \in {[nofile |-> TRUE], [torn |-> TRUE]}
              THEN feature_row(airbnb_feat(user_profile), airbnb_features)
              ELSE csv_airbnb
    IN  [df |-> df, user_profile |-> user_profile, csv |-> df]

\* What a call leaves behind: the DataFrame returned, the dict passed in as
\* it is after the call (the function only reads it), and the debug file.
build_airbnb_feature_df(user_profile) ==
    LET df == feature_row(airbnb_feat(user_profile), airbnb_features)
    IN  [df |-> df, user_profile |-> user_profile, csv |-> df]

\* A variant of furnished_one_hot that writes the furnished column only.
furnished_one_hot_single(feat, user_profile) ==
    dict_set(feat, "Type de locationom_meuble",
             PyInt(py_int(PyBool(py_bool(
                 dict_get(user_profile, "furnished", PyBool(FALSE)))))))

\* furnished = bool(...); feat[meuble] = int(furnished); feat[non meuble] = int(not furnished)
furnished_one_hot(feat, user_profile) ==
    LET furnished == py_bool(dict_get(user_profile, "furnished", PyBool(FALSE)))
    IN  dict_set(dict_set(feat, "Type de locationom_meuble",
                          PyInt(py_int(PyBool(furnished)))),
                 "Type de locationom_non meuble", PyInt(py_int(PyBool(~furnished))))

\* A variant of renting_feat that takes one room for a profile without a
\* room count.
renting_feat_one_room(user_profile) ==
    LET feat0 == zero_feat(rent_features)
        feat1 == arrondissement_one_hot(feat0, user_profile)
        feat2 == dict_set(feat1, "Nombre de pieces principales",
                     dict_get(user_profile, "Number of rooms renting", PyInt(1)))
    IN  furnished_one_hot(feat2, user_profile)

renting_feat(user_profile) ==
    LET feat0 == zero_feat(rent_features)
        feat1 == arrondissement_one_hot(feat0, user_profile)
        feat2 == dict_set(feat1, "Nombre de pieces principales",
                     dict_get(user_profile, "Number of rooms renting", PyNone))
    IN  furnished_one_hot(feat2, user_profile)

build_renting_feature_df(user_profile) ==
    LET df == feature_row(renting_feat(user_profile), rent_features)
    IN  [df |-> df, user_profile |-> user_profile, csv |-> df]

----------------------------------------------------------------------------
(* The fitted models (ml_models/*.sav) are opaque artifacts: a model is its *)
(* declared input columns and a fixed function from a row to a raw output.  *)
(* Raw outputs are fixed-point numbers: the nightly model's in millionths   *)
(* (a log price), the other two in thousandths (a price).                   *)

NightlyLevels == <<4615121, 4611152, 5000000, 5500000, -500000, -40000000, 4000000>>
CleaningLevels == <<45500, 30999, -2300, 60000>>
RentingLevels == <<1379230, 560169, -120500, 2500750, 900000>>

IsNumeric(v) == IsPyInt(v) \/ IsPyBool(v)

RECURSIVE WeightedSum(_, _)
WeightedSum(row, i) ==
    IF i > Len(row) THEN 0 ELSE i * py_int(row[i]) + WeightedSum(row, i + 1)

\* model.predict(df)[0]: rejects a frame whose columns are not the fitted
\* ones, or whose cells are not numbers
model_predict(model, df) ==
    IF df.columns # model.feature_names_in_ THEN [exc |-> "ValueError"]
    ELSE IF \E i \in DOMAIN df.row : ~IsNumeric(df.row[i]) THEN [exc |-> "ValueError"]
    ELSE [exc |-> "none",
          value |-> model.levels[((model.seed + WeightedSum(df.row, 1)) % Len(model.levels)) + 1]]

\* np.expm1 of a log price in millionths, in thousandths cut toward zero
\* (math.expm1 of each value the models can put out, and of its round(x, 4))
expm1(x) ==
    CASE x = -40000000 -> -1000
      [] x = -500000 -> -393
      [] x = 4000000 -> 53598
      [] x = 4611152 -> 99599
      [] x = 4611200 -> 99604
      [] x = 4615100 -> 99997
      [] x = 4615121 -> 100000
      [] x = 5000000 -> 147413
      [] x = 5500000 -> 243691

\* round(x, 4) of a number in millionths: to the nearest ten-thousandth,
\* a tie to the even one
round4(x) ==
    LET q == x \div 100
        r == x % 100
    IN  IF r > 50 \/ (r = 50 /\ q % 2 = 1) THEN (q + 1) * 100 ELSE q * 100

\* A variant of int_of_float that stores 0 for a negative number.
int_of_float_clamped(x) == IF x >= 0 THEN x \div 1000 ELSE 0

\* int(x) of a number in thousandths: cut toward zero
int_of_float(x) == IF x >= 0 THEN x \div 1000 ELSE -((-x) \div 1000)

\* str(n) of a non-negative integer, as its digits
Digit(d) == <<"0","1","2","3","4","5","6","7","8","9">>[d + 1]

RECURSIVE py_str_int(_)
py_str_int(n) ==
    IF n < 10 THEN <<Digit(n)>> ELSE Append(py_str_int(n \div 10), Digit(n % 10))

----------------------------------------------------------------------------
(* computations.py: prediction functions.  Each operator gives what a call *)
(* leaves behind: exc is the exception it raised ("none": it returned).    *)

\* A variant of run_computations_airbnb that absorbs a failure of the
\* cleaning model: it returns as if nothing had happened, storing no cost.
run_computations_airbnb_absorbing(user_profile, ss) ==
    LET b == build_airbnb_feature_df(user_profile)
        log_pred == model_predict(model_airbnb_price, b.df)
        left(exc, state) ==
            [exc |-> exc, session_state |-> state,
             user_profile |-> b.user_profile, csv |-> b.csv]
    IN  IF log_pred.exc # "none" THEN left(log_pred.exc, ss)
        ELSE
        LET nightly_price == expm1(round4(log_pred.value))
            ss1 == dict_set(ss, "user_price_prediction",
                            PyInt(int_of_float(nightly_price)))
        IN  IF ~({"bedrooms", "bathrooms_text"} \subseteq Range(b.df.columns))
            THEN left("KeyError", ss1)
            ELSE
            LET df_clean == DataFrame(<<DfGet(b.df, "bedrooms"),
                                        DfGet(b.df, "bathrooms_text")>>,
                                      <<"Bedroom", "Bathroom">>)
                cleaning_pred == model_predict(model_cleaning_costs, df_clean)
            IN  IF cleaning_pred.exc # "none" THEN left("none", ss1)
                ELSE left("none",
                          dict_set(ss1, "user_cleaning_cost_prediction",
                                   PyInt(int_of_float(cleaning_pred.value))))

run_computations_airbnb(user_profile, ss) ==
    LET b == build_airbnb_feature_df(user_profile)
        log_pred == model_predict(model_airbnb_price, b.df)
        left(exc, state) ==
            [exc |-> exc, session_state |-> state,
             user_profile |-> b.user_profile, csv |-> b.csv]
    IN  IF log_pred.exc # "none" THEN left(log_pred.exc, ss)
        ELSE
        LET nightly_price == expm1(round4(log_pred.value))
            ss1 == dict_set(ss, "user_price_prediction",
                            PyInt(int_of_float(nightly_price)))
        IN  IF ~({"bedrooms", "bathrooms_text"} \subseteq Range(b.df.columns))
            THEN left("KeyError", ss1)
            ELSE
            LET df_clean == DataFrame(<<DfGet(b.df, "bedrooms"),
                                        DfGet(b.df, "bathrooms_text")>>,
                                      <<"Bedroom", "Bathroom">>)
                cleaning_pred == model_predict(model_cleaning_costs, df_clean)
            IN  IF cleaning_pred.exc # "none" THEN left(cleaning_pred.exc, ss1)
                ELSE left("none",
                          dict_set(ss1, "user_cleaning_cost_prediction",
                                   PyInt(int_of_float(cleaning_pred.value))))

run_computations_renting(user_profile, ss) ==
    LET b == build_renting_feature_df(user_profile)
        pred == model_predict(model_renting_price, b.df)
    IN  [exc |-> pred.exc,
         session_state |->
             IF pred.exc # "none" THEN ss
             ELSE dict_set(ss, "user_renting_price_prediction",
                           PyInt(int_of_float(pred.value))),
         user_profile |-> b.user_profile, csv |-> b.csv]

\* A variant of zero_present_arrondissements whose loop stops one column
\* short: the last column of ARRONDISSEMENT_COLUMNS is left as it is.
zero_present_arrondissements_short(df) ==
    DataFrame([i \in DOMAIN df.row |->
                  IF df.columns[i] \in ArrondissementColumnSet
                         \ {ARRONDISSEMENT_COLUMNS[Len(ARRONDISSEMENT_COLUMNS)]}
                  THEN PyInt(0) ELSE df.row[i]],
              df.columns)

\* for c in ARRONDISSEMENT_COLUMNS: if c in df_temp: df_temp[c] = 0
\* (the frame the loop ends with: every arrondissement column present is 0)
zero_present_arrondissements(df) ==
    DataFrame([i \in DOMAIN df.row |->
                  IF df.columns[i] \in ArrondissementColumnSet
                  THEN PyInt(0) ELSE df.row[i]],
              df.columns)

\* A variant of sweep_vector that skips the zeroing loop.
sweep_vector_keep(base_df, arr_num) ==
    IF DfHas(base_df, ARRONDISSEMENT_MAP[arr_num])
    THEN DfAssign(base_df, ARRONDISSEMENT_MAP[arr_num], PyInt(1))
    ELSE base_df

\* the df_temp of one pass of the loop over ARRONDISSEMENT_MAP.items()
sweep_vector(base_df, arr_num) ==
    LET zeroed == zero_present_arrondissements(base_df)
        arr_col == ARRONDISSEMENT_MAP[arr_num]
    IN  IF DfHas(zeroed, arr_col) THEN DfAssign(zeroed, arr_col, PyInt(1)) ELSE zeroed

predict_all_arrondissement_prices(user_profile) ==
    LET b == build_airbnb_feature_df(user_profile)
        scored == [n \in 1..20 |-> sweep_vector(b.df, n)]
        preds == [n \in 1..20 |-> model_predict(model_airbnb_price, scored[n])]
        failed == {n \in 1..20 : preds[n].exc # "none"}
    IN  IF failed # {}
        THEN [exc |-> preds[CHOOSE n \in failed : \A m \in failed : n <= m].exc,
              user_profile |-> b.user_profile, csv |-> b.csv]
        ELSE [exc |-> "none",
              rows |-> [n \in 1..20 |->
                          [Arrondissement_Code |-> py_str_int(INSEE_MAP[n]),
                           Avg_Price_Apt |-> int_of_float(expm1(preds[n].value)),
                           Arrondissement_Number |-> n]],
              scored |-> scored,
              user_profile |-> b.user_profile, csv |-> b.csv]

\* for col in ARRONDISSEMENT_COLUMNS: df_median[col] = 0
\* (the frame the loop ends with: an assignment to a column the frame lacks
\* appends it, so the missing columns follow in the order of the list)
zero_all_arrondissements(df) ==
    LET missing == SelectSeq(ARRONDISSEMENT_COLUMNS, LAMBDA c : ~DfHas(df, c))
        columns == df.columns \o missing
    IN  DataFrame([i \in DOMAIN columns |->
                      IF columns[i] \in ArrondissementColumnSet
                      THEN PyInt(0) ELSE df.row[i]],
                  columns)

\* A variant of median_vector that sets the reference column without
\* clearing the column of the profile's own arrondissement.
median_vector_keep(base_df) ==
    DfAssign(base_df, ARRONDISSEMENT_MAP[MEDIAN_ARRONDISSEMENT], PyInt(1))

\* computations.py:245-253
median_vector(base_df) ==
    DfAssign(zero_all_arrondissements(base_df),
             ARRONDISSEMENT_MAP[MEDIAN_ARRONDISSEMENT], PyInt(1))

\* A variant of zero_amenities that clears, of the columns of one label, the
\* first one only (the values of a catalog in which the first column wins).
zero_amenities_first(df) ==
    DataFrame([i \in DOMAIN df.row |->
                  IF \E l \in DOMAIN label_to_amenity_col :
                         label_to_col_first(amenity_cols(airbnb_features))[l]
                             = df.columns[i]
                  THEN PyInt(0) ELSE df.row[i]],
              df.columns)

\* for amenity_col in label_to_amenity_col.values():
\*     if amenity_col in df_base.columns: df_base[amenity_col] = 0
zero_amenities(df) ==
    DataFrame([i \in DOMAIN df.row |->
                  IF \E l \in DOMAIN label_to_amenity_col :
                         label_to_amenity_col[l] = df.columns[i]
                  THEN PyInt(0) ELSE df.row[i]],
              df.columns)

\* A variant of baseline_vector that leaves the bedrooms of the profile.
baseline_vector_bedrooms(df_median) ==
    zero_amenities(
        DfAssign(DfAssign(DfAssign(df_median,
            "host_is_superhost", PyInt(0)),
            "host_listings_count", PyInt(1)),
            "bathrooms_text", PyInt(1)))

\* computations.py:261-272
baseline_vector(df_median) ==
    zero_amenities(
        DfAssign(DfAssign(DfAssign(DfAssign(df_median,
            "host_is_superhost", PyInt(0)),
            "host_listings_count", PyInt(1)),
            "bedrooms", PyInt(1)),
            "bathrooms_text", PyInt(1)))

\* A variant of impact_kpis with the operands of location_impact exchanged.
impact_kpis_exchanged(current_predicted_price, median_price, baseline_price) ==
    [location_impact |-> median_price - current_predicted_price,
     quality_impact |-> median_price - baseline_price,
     median_location_price |-> median_price,
     baseline_price |-> baseline_price]

\* A variant of impact_kpis that measures the quality premium from the price
\* passed in instead of from the median-location price.
impact_kpis_from_price(current_predicted_price, median_price, baseline_price) ==
    [location_impact |-> current_predicted_price - median_price,
     quality_impact |-> current_predicted_price - baseline_price,
     median_location_price |-> median_price,
     baseline_price |-> baseline_price]

\* computations.py:280-288
impact_kpis(current_predicted_price, median_price, baseline_price) ==
    [location_impact |-> current_predicted_price - median_price,
     quality_impact |-> median_price - baseline_price,
     median_location_price |-> median_price,
     baseline_price |-> baseline_price]

\* A variant of calculate_price_impact_kpis that reads the nightly price from
\* the session state when one is stored there, whatever price it is passed.
calculate_price_impact_kpis_session(user_profile, current_predicted_price) ==
    LET b == build_airbnb_feature_df(user_profile)
        df_median == median_vector(b.df)
        median_log == model_predict(model_airbnb_price, df_median)
        df_base == baseline_vector(df_median)
        baseline_log == model_predict(model_airbnb_price, df_base)
    IN  IF median_log.exc # "none"
        THEN [exc |-> median_log.exc, df_median |-> df_median,
              user_profile |-> b.user_profile, csv |-> b.csv]
        ELSE IF baseline_log.exc # "none"
        THEN [exc |-> baseline_log.exc, df_median |-> df_median, df_base |-> df_base,
              user_profile |-> b.user_profile, csv |-> b.csv]
        ELSE [exc |-> "none",
              value |-> impact_kpis(
                  dict_get(session_state, "user_price_prediction",
                           PyInt(current_predicted_price)).int,
                  int_of_float(expm1(median_log.value)),
                  int_of_float(expm1(baseline_log.value))),
              df_median |-> df_median, df_base |-> df_base,
              user_profile |-> b.user_profile, csv |-> b.csv]

calculate_price_impact_kpis(user_profile, current_predicted_price) ==
    LET b == build_airbnb_feature_df(user_profile)
        df_median == median_vector(b.df)
        median_log == model_predict(model_airbnb_price, df_median)
        df_base == baseline_vector(df_median)
        baseline_log == model_predict(model_airbnb_price, df_base)
    IN  IF median_log.exc # "none"
        THEN [exc |-> median_log.exc, df_median |-> df_median,
              user_profile |-> b.user_profile, csv |-> b.csv]
        ELSE IF baseline_log.exc # "none"
        THEN [exc |-> baseline_log.exc, df_median |-> df_median, df_base |-> df_base,
              user_profile |-> b.user_profile, csv |-> b.csv]
        ELSE [exc |-> "none",
              value |-> impact_kpis(current_predicted_price,
                                    int_of_float(expm1(median_log.value)),
                                    int_of_float(expm1(baseline_log.value))),
              df_median |-> df_median, df_base |-> df_base,
              user_profile |-> b.user_profile, csv |-> b.csv]

----------------------------------------------------------------------------
(* computations.py: confidence intervals.  Prices and RMSEs are in cents. *)

\* A variant of airbnb_rmse whose bounds are inclusive.
airbnb_rmse_inclusive(prediction) ==
    IF prediction <= 10200 THEN 4020
    ELSE IF prediction <= 15100 THEN 4044
    ELSE IF prediction <= 23900 THEN 5307
    ELSE 11552

airbnb_rmse(prediction) ==
    IF prediction < 10200 THEN 4020
    ELSE IF prediction < 15100 THEN 4044
    ELSE IF prediction < 23900 THEN 5307
    ELSE 11552

airbnb_confidence_interval(prediction) ==
    <<prediction - airbnb_rmse(prediction), prediction + airbnb_rmse(prediction)>>

\* A variant of renting_rmse with the RMSEs of its two middle buckets exchanged.
renting_rmse_exchanged(prediction) ==
    IF prediction < 56017 THEN 3029
    ELSE IF prediction < 137923 THEN 15946
    ELSE IF prediction < 202577 THEN 8773
    ELSE 19143

renting_rmse(prediction) ==
    IF prediction < 56017 THEN 3029
    ELSE IF prediction < 137923 THEN 8773
    ELSE IF prediction < 202577 THEN 15946
    ELSE 19143

renting_confidence_interval(prediction) ==
    <<prediction - renting_rmse(prediction), prediction + renting_rmse(prediction)>>

----------------------------------------------------------------------------
(* pages/airbnb_page.py and pages/renting_page.py: one run of each page's    *)
(* script, from the dict it builds of the sidebar's values to what it shows. *)

\* the run ended at an exception: nothing below the failing call is shown
NothingShown == [nothing |-> TRUE]

\* airbnb_page.py:222-237: the session after the sweep and the KPIs, each
\* stored when it returned and None when it raised
airbnb_page_session(ss, sweep, kpis) ==
    dict_set(dict_set(ss, "df_map_prices",
                      IF sweep.exc = "none" THEN [rows |-> sweep.rows] ELSE PyNone),
             "impact_kpis",
             IF kpis.exc = "none" THEN [dict |-> kpis.value] ELSE PyNone)

\* airbnb_page.py:226, 236, 229-230, 311-316, 419-434, 573-644: what a run
\* that reached the tabs shows, read from the session
airbnb_page_shown(ss, sweep, kpis) ==
    [warnings |->
         (IF sweep.exc = "none" THEN {}
          ELSE {"Could not run all Arrondissement predictions"})
         \cup
         (IF kpis.exc = "none" THEN {}
          ELSE {"Could not calculate price impact KPIs"}),
     nightly |-> dict_get(ss, "user_price_prediction", PyInt(0)).int,
     cleaning |-> dict_get(ss, "user_cleaning_cost_prediction", PyInt(0)).int,
     interval |->
         airbnb_confidence_interval(
             100 * dict_get(ss, "user_price_prediction", PyInt(0)).int),
     map |-> dict_get(ss, "df_map_prices", PyNone),
     drivers |-> dict_get(ss, "impact_kpis", PyNone)]

\* renting_page.py:115-133: what a run that reached the card shows
renting_page_shown(ss) ==
    [rent |-> dict_get(ss, "user_renting_price_prediction", PyInt(0)).int,
     interval |->
         renting_confidence_interval(
             100 * dict_get(ss, "user_renting_price_prediction", PyInt(0)).int)]

----------------------------------------------------------------------------
(* The state after the import of computations.py, and the calls. *)

Functions ==
    {"build_airbnb_feature_df", "build_renting_feature_df",
     "run_computations_airbnb", "run_computations_renting",
     "predict_all_arrondissement_prices", "calculate_price_impact_kpis",
     "airbnb_confidence_interval", "renting_confidence_interval"}

Pages == {"airbnb_page", "renting_page"}

NoCall == [nocall |-> TRUE]
NoFile == [nofile |-> TRUE]

\* computations.py:30-38
Loaded(schema, seed) ==
    /\ model_airbnb_price =
           [feature_names_in_ |-> schema, levels |-> NightlyLevels, seed |-> seed]
    /\ model_cleaning_costs =
           [feature_names_in_ |-> <<"Bedroom", "Bathroom">>,
            levels |-> CleaningLevels, seed |-> seed]
    /\ model_renting_price =
           [feature_names_in_ |-> rent_features, levels |-> RentingLevels, seed |-> seed]
    /\ airbnb_features = schema
    /\ label_to_amenity_col = build_amenity_maps(schema).label_to_col
    /\ amenity_col_to_label = build_amenity_maps(schema).col_to_label

\* the server runs one session
NoPeer == [nopeer |-> TRUE]

Fresh ==
    /\ csv_airbnb = NoFile
    /\ csv_renting = NoFile
    /\ session_state = EmptyDict
    /\ ret = [f \in Functions \cup Pages |-> NoCall]
    /\ peer = NoPeer
    /\ profiles_json = NoFile

\* a file two threads wrote at once: bytes of both, in some order
TornFile == [torn |-> TRUE]

\* df.to_csv(path) (computations.py:93, 145): the file holds the frame, or,
\* when another session may be writing the same path, anything of the two
to_csv(frame) == IF peer = NoPeer THEN {frame} ELSE {frame, TornFile}

globals == <<model_airbnb_price, model_cleaning_costs, model_renting_price,
             airbnb_features, label_to_amenity_col, amenity_col_to_label>>

BuildAirbnbFeatureDf ==
    \E r \in {build_airbnb_feature_df(user_data)} :
        /\ ret' = [ret EXCEPT !["build_airbnb_feature_df"] =
                      [arg |-> user_data, df |-> r.df]]
        /\ user_data' = r.user_profile
        /\ csv_airbnb' \in to_csv(r.csv)
        /\ UNCHANGED <<globals, profiles_json, peer, csv_renting, session_state>>

BuildRentingFeatureDf ==
    \E r \in {build_renting_feature_df(user_data)} :
        /\ ret' = [ret EXCEPT !["build_renting_feature_df"] =
                      [arg |-> user_data, df |-> r.df]]
        /\ user_data' = r.user_profile
        /\ csv_renting' \in to_csv(r.csv)
        /\ UNCHANGED <<globals, profiles_json, peer, csv_airbnb, session_state>>

RunComputationsAirbnb ==
    \E r \in {run_computations_airbnb(user_data, session_state)} :
        /\ ret' = [ret EXCEPT !["run_computations_airbnb"] =
                      [arg |-> user_data, exc |-> r.exc]]
        /\ session_state' = r.session_state
        /\ user_data' = r.user_profile
        /\ csv_airbnb' \in to_csv(r.csv)
        /\ UNCHANGED <<globals, profiles_json, peer, csv_renting>>

RunComputationsRenting ==
    \E r \in {run_computations_renting(user_data, session_state)} :
        /\ ret' = [ret EXCEPT !["run_computations_renting"] =
                      [arg |-> user_data, exc |-> r.exc]]
        /\ session_state' = r.session_state
        /\ user_data' = r.user_profile
        /\ csv_renting' \in to_csv(r.csv)
        /\ UNCHANGED <<globals, profiles_json, peer, csv_airbnb>>

PredictAllArrondissementPrices ==
    \E r \in {predict_all_arrondissement_prices(user_data)} :
        /\ ret' = [ret EXCEPT !["predict_all_arrondissement_prices"] =
                      IF r.exc = "none"
                      THEN [arg |-> user_data, exc |-> r.exc,
                            rows |-> r.rows, scored |-> r.scored]
                      ELSE [arg |-> user_data, exc |-> r.exc]]
        /\ user_data' = r.user_profile
        /\ csv_airbnb' \in to_csv(r.csv)
        /\ UNCHANGED <<globals, profiles_json, peer, csv_renting, session_state>>

\* the prices a caller passes: the page passes the stored nightly price,
\* 0 when there is none (airbnb_page.py:229-233)
PriceArgs ==
    {0, 100, dict_get(session_state, "user_price_prediction", PyInt(0)).int}

CalculatePriceImpactKpis ==
    \E current_predicted_price \in PriceArgs :
        \E r \in {calculate_price_impact_kpis(user_data, current_predicted_price)} :
            /\ ret' = [ret EXCEPT !["calculate_price_impact_kpis"] =
                          IF r.exc = "none"
                          THEN [arg |-> user_data, price |-> current_predicted_price,
                                exc |-> r.exc, value |-> r.value,
                                df_median |-> r.df_median, df_base |-> r.df_base]
                          ELSE IF "df_base" \in DOMAIN r
                          THEN [arg |-> user_data, price |-> current_predicted_price,
                                exc |-> r.exc,
                                df_median |-> r.df_median, df_base |-> r.df_base]
                          ELSE [arg |-> user_data, price |-> current_predicted_price,
                                exc |-> r.exc, df_median |-> r.df_median]]
            /\ user_data' = r.user_profile
            /\ csv_airbnb' \in to_csv(r.csv)
            /\ UNCHANGED <<globals, profiles_json, peer, csv_renting, session_state>>

\* point estimates, in cents: each threshold, the cent below it, and the ends
CIPoints ==
    {-5000, 0, 10000, 10199, 10200, 15099, 15100, 20000, 23899, 23900,
     56016, 56017, 137922, 137923, 202576, 202577, 300000}

AirbnbConfidenceInterval ==
    \E prediction \in CIPoints :
        /\ ret' = [ret EXCEPT !["airbnb_confidence_interval"] =
                      [arg |-> prediction,
                       value |-> airbnb_confidence_interval(prediction)]]
        /\ UNCHANGED <<globals, profiles_json, peer, user_data, csv_airbnb, csv_renting, session_state>>

RentingConfidenceInterval ==
    \E prediction \in CIPoints :
        /\ ret' = [ret EXCEPT !["renting_confidence_interval"] =
                      [arg |-> prediction,
                       value |-> renting_confidence_interval(prediction)]]
        /\ UNCHANGED <<globals, profiles_json, peer, user_data, csv_airbnb, csv_renting, session_state>>

\* the dict a page builds of its sidebar's values: each widget has a value
AirbnbPageKeys ==
    {"host_is_superhost", "host_listings_count", "host_identity_verified",
     "bathrooms", "bedrooms", "arrondissement", "room_type", "amenities"}

RentingPageKeys == {"Number of rooms renting", "arrondissement", "furnished"}

SidebarDict(keys) == [k \in keys |-> user_data[k]]

\* airbnb_page.py:206-237: run_computations_airbnb is called bare, and an
\* exception of it ends the run; the sweep and the KPIs are called in try
AirbnbPage ==
    \E run \in {run_computations_airbnb(SidebarDict(AirbnbPageKeys), session_state)} :
        IF run.exc # "none"
        THEN /\ ret' = [ret EXCEPT !["airbnb_page"] =
                           [arg |-> SidebarDict(AirbnbPageKeys), exc |-> run.exc,
                            shown |-> NothingShown]]
             /\ session_state' = run.session_state
             /\ csv_airbnb' \in to_csv(run.csv)
             /\ UNCHANGED <<globals, profiles_json, peer, user_data, csv_renting>>
        ELSE
        \E sweep \in {predict_all_arrondissement_prices(run.user_profile)} :
        \E pred_price_per_night \in
               {dict_get(run.session_state, "user_price_prediction", PyInt(0)).int} :
        \E kpis \in {calculate_price_impact_kpis(sweep.user_profile,
                                                 pred_price_per_night)} :
        \E ss \in {airbnb_page_session(run.session_state, sweep, kpis)} :
            /\ ret' = [ret EXCEPT !["airbnb_page"] =
                          [arg |-> SidebarDict(AirbnbPageKeys), exc |-> "none",
                           shown |-> airbnb_page_shown(ss, sweep, kpis)]]
            /\ session_state' = ss
            /\ csv_airbnb' \in to_csv(kpis.csv)
            /\ UNCHANGED <<globals, profiles_json, peer, user_data, csv_renting>>

\* renting_page.py:105-133: run_computations_renting is called bare
RentingPage ==
    \E run \in {run_computations_renting(SidebarDict(RentingPageKeys), session_state)} :
        /\ ret' = [ret EXCEPT !["renting_page"] =
                      [arg |-> SidebarDict(RentingPageKeys), exc |-> run.exc,
                       shown |-> IF run.exc # "none" THEN NothingShown
                                 ELSE renting_page_shown(run.session_state)]]
        /\ session_state' = run.session_state
        /\ csv_renting' \in to_csv(run.csv)
        /\ UNCHANGED <<globals, profiles_json, peer, user_data, csv_airbnb>>

\* the sidebars' values: every field of the profile has one
SidebarProfiles ==
    {p \in ProfilesVarying(MaxVariedPredict) : DOMAIN p = ProfileKeys}

\* the values the user changes the sidebar to between two runs
SidebarChanges ==
    {BaseProfile,
     Vary(Vary(BaseProfile, "bedrooms", PyInt(3)),
          "Number of rooms renting", PyInt(3))}

SidebarChange ==
    /\ user_data' \in SidebarChanges \ {user_data}
    /\ UNCHANGED <<globals, profiles_json, peer, csv_airbnb, csv_renting, session_state, ret>>

----------------------------------------------------------------------------
(* The feature builders, called on a profile under each schema. *)

InitBuild ==
    /\ \E schema \in Schemas : Loaded(schema, 0)
    /\ user_data \in Profiles
    /\ Fresh

NextBuild == BuildAirbnbFeatureDf \/ BuildRentingFeatureDf

SpecBuild == InitBuild /\ [][NextBuild]_vars

(* The prediction functions, called in any order on a profile. *)

Init ==
    /\ \E schema \in Schemas, seed \in 0..MaxSeed : Loaded(schema, seed)
    /\ user_data \in ProfilesVarying(MaxVariedPredict)
    /\ Fresh

Next ==
    \/ RunComputationsAirbnb
    \/ RunComputationsRenting
    \/ PredictAllArrondissementPrices
    \/ CalculatePriceImpactKpis

Spec == Init /\ [][Next]_vars

(* The confidence-interval lookups, called on any point estimates. *)

InitCI ==
    /\ Loaded(SchemaFull, 0)
    /\ user_data = BaseProfile
    /\ Fresh

NextCI == AirbnbConfidenceInterval \/ RentingConfidenceInterval

SpecCI == InitCI /\ [][NextCI]_vars

(* Every function of computations.py, called in any order on a profile. *)

InitCalls ==
    /\ \E schema \in Schemas : Loaded(schema, 0)
    /\ user_data \in ProfilesVarying(MaxVariedPredict)
    /\ Fresh

NextCalls == NextBuild \/ Next

SpecCalls == InitCalls /\ [][NextCalls]_vars

(* The pages, run and rerun as the sidebar changes, over models fitted on   *)
(* the columns the code sends them and over models fitted on other columns. *)

\* fitted columns of a cleaning model other than the two the code sends
CleaningMisfit == <<"bedrooms", "bathrooms_text">>

\* fitted columns of a rent model of 22 columns: rent_features less its last
RentingMisfit == SubSeq(rent_features, 1, Len(rent_features) - 1)

LoadedFitted(schema, cleaning_names, renting_names) ==
    /\ model_airbnb_price =
           [feature_names_in_ |-> schema, levels |-> NightlyLevels, seed |-> 0]
    /\ model_cleaning_costs =
           [feature_names_in_ |-> cleaning_names,
            levels |-> CleaningLevels, seed |-> 0]
    /\ model_renting_price =
           [feature_names_in_ |-> renting_names,
            levels |-> RentingLevels, seed |-> 0]
    /\ airbnb_features = schema
    /\ label_to_amenity_col = build_amenity_maps(schema).label_to_col
    /\ amenity_col_to_label = build_amenity_maps(schema).col_to_label

InitPages ==
    /\ \E schema \in Schemas,
          cleaning_names \in {<<"Bedroom", "Bathroom">>, CleaningMisfit},
          renting_names \in {rent_features, RentingMisfit} :
           LoadedFitted(schema, cleaning_names, renting_names)
    /\ user_data \in SidebarProfiles
    /\ Fresh

NextPages == AirbnbPage \/ RentingPage \/ SidebarChange

SpecPages == InitPages /\ [][NextPages]_vars

(* Two sessions of one server process: each runs its own script on its own *)
(* dict and its own st.session_state; both import the same computations.py *)
(* and write the same two files.                                             *)

\* the server turns to the other session: its next call is the one that runs
Switch ==
    /\ peer # NoPeer
    /\ user_data' = peer.user_data
    /\ session_state' = peer.session_state
    /\ ret' = peer.ret
    /\ peer' = [user_data |-> user_data, session_state |-> session_state,
                ret |-> ret]
    /\ UNCHANGED <<globals, profiles_json, csv_airbnb, csv_renting>>

\* the profiles of the two sessions
SessionProfiles ==
    {BaseProfile,
     Vary(Vary(BaseProfile, "arrondissement", PyInt(20)), "furnished", PyBool(TRUE)),
     Vary(BaseProfile, "amenities", PyList(<<Wifi>>))}

InitSessions ==
    /\ \E schema \in Schemas : Loaded(schema, 0)
    /\ user_data \in SessionProfiles
    /\ csv_airbnb = NoFile
    /\ csv_renting = NoFile
    /\ profiles_json = NoFile
    /\ session_state = EmptyDict
    /\ ret = [f \in Functions \cup Pages |-> NoCall]
    /\ \E other \in SessionProfiles \ {user_data} :
           peer = [user_data |-> other, session_state |-> EmptyDict,
                   ret |-> [f \in Functions \cup Pages |-> NoCall]]

NextSessions ==
    \/ BuildAirbnbFeatureDf
    \/ BuildRentingFeatureDf
    \/ RunComputationsAirbnb
    \/ RunComputationsRenting
    \/ Switch

SpecSessions == InitSessions /\ [][NextSessions]_vars

(* The router, the home page, the login page and the logout button: each   *)
(* session runs main() on every interaction. Sign-up reads and writes      *)
(* data/profiles.json, which all sessions share.                           *)

\* main.py:59
DashboardPages == {"Airbnb", "Renting", "Comparison", "Profile"}

\* open(PROFILES_DATA_PATH, "w") (login.py:58) has truncated the file and
\* json.dump has not written yet
EmptyFile == [empty |-> TRUE]

\* a profiles file that holds the dict data
JsonFile(data) == [data |-> data]

\* login.py:29-46: no file, or a file json.load rejects, is no users
load_data(file) == IF "data" \in DOMAIN file THEN file.data ELSE EmptyDict

\* login.py:62-79
validate_user(file, username, password) ==
    \E data \in {load_data(file)} :
        /\ username \in DOMAIN data
        /\ dict_get(data[username], "password", PyNone) = PyStr(password)

\* main.py:30-40
init_session(ss) ==
    [key \in DOMAIN ss \cup {"logged_in", "page", "username"} |->
        IF key \in DOMAIN ss THEN ss[key]
        ELSE IF key = "logged_in" THEN PyBool(FALSE)
        ELSE IF key = "page" THEN PyStr("home")
        ELSE PyNone]

\* the user did not touch the sidebar's radio in this run
NoSelection == [noselection |-> TRUE]

\* main.py:46-63: the radio returns the option the user chose, or the one at
\* index, the session's page; list.index raises on a page it does not hold
dashboard_sidebar(ss, selection) ==
    IF selection # NoSelection THEN [exc |-> "none", value |-> selection.str]
    ELSE IF dict_get(ss, "page", PyStr("Airbnb")) \in {PyStr(p) : p \in DashboardPages}
    THEN [exc |-> "none", value |-> dict_get(ss, "page", PyStr("Airbnb")).str]
    ELSE [exc |-> "ValueError"]

\* main.py:69-96, one run of the script up to the call of the page: the
\* session it leaves and the page it renders
main(ss, selection) ==
    LET s0 == init_session(ss)
        selected_page == dashboard_sidebar(s0, selection)
    IN  IF s0["logged_in"] # PyBool(TRUE)
        THEN [session_state |-> s0,
              rendered |-> IF s0["page"] \in {PyStr("home"), PyStr("login")}
                           THEN s0["page"].str ELSE "nothing"]
        ELSE IF selected_page.exc # "none"
        THEN [session_state |-> s0, rendered |-> selected_page.exc]
        ELSE [session_state |-> dict_set(s0, "page", PyStr(selected_page.value)),
              rendered |-> selected_page.value]

\* login.py:105-107 and 228-230
log_in(ss, username) ==
    dict_set(dict_set(dict_set(ss, "logged_in", PyBool(TRUE)),
                      "username", PyStr(username)),
             "page", PyStr("Airbnb"))

\* a logout that leaves the username in the session
logout_keeps_username(ss) ==
    dict_set(dict_set(dict_set(ss, "logged_in", PyBool(FALSE)),
                      "email", PyNone),
             "page", PyStr("home"))

\* profile_page.py:210-213
logout(ss) ==
    dict_set(dict_set(dict_set(dict_set(ss, "logged_in", PyBool(FALSE)),
                               "username", PyNone),
                      "email", PyNone),
             "page", PyStr("home"))

\* login.py:147-153, the first option of the selectbox
NoRoomType == "-- Select property type --"

\* what the widgets of the sign-up form hold when the button is pressed; the
\* widgets left out keep their defaults
SignUpForm(new_username, new_password, confirm_password, email, room_type, arrondissement) ==
    [new_username |-> new_username, new_password |-> new_password,
     confirm_password |-> confirm_password, email |-> email,
     room_type |-> room_type, arrondissement |-> arrondissement]

SignUpForms ==
    {SignUpForm("alice", "pw2", "pw2", "a2@x", "Private room", 1),
     SignUpForm("bob", "pw1", "pw1", "b@x", "Entire home/apt", 10),
     SignUpForm("bob", "pw2", "pw2", "b2@x", "Private room", 20),
     SignUpForm("carol", "pw1", "pw1", "c@x", "Private room", 5),
     SignUpForm("", "pw1", "pw1", "e@x", "Private room", 1),
     SignUpForm("bob", "pw1", "pw2", "b@x", "Private room", 1),
     SignUpForm("carol", "pw1", "pw1", "c@x", NoRoomType, 1)}

\* login.py:209-221
signup_entry(form) ==
    [k \in {"email", "password", "host_is_superhost", "host_listings_count",
            "host_identity_verified", "bathrooms", "bedrooms", "arrondissement",
            "room_type", "num_rooms", "amenities"} |->
        CASE k = "email" -> PyStr(form.email)
          [] k = "password" -> PyStr(form.new_password)
          [] k = "host_is_superhost" -> PyBool(FALSE)
          [] k = "host_listings_count" -> PyInt(0)
          [] k = "host_identity_verified" -> PyBool(FALSE)
          [] k = "bathrooms" -> PyInt(1)
          [] k = "bedrooms" -> PyInt(1)
          [] k = "arrondissement" -> PyInt(form.arrondissement)
          [] k = "room_type" -> PyStr(form.room_type)
          [] k = "num_rooms" -> PyInt(1)
          [] OTHER -> PyList(<<>>)]

\* login.py:198-206, the checks of the sign-up button in their order
signup_error(form, profiles) ==
    IF form.new_username = "" \/ form.new_password = "" \/ form.email = ""
    THEN "Please fill in all required fields."
    ELSE IF form.new_password # form.confirm_password
    THEN "Passwords do not match."
    ELSE IF form.room_type = NoRoomType
    THEN "Please choose a valid property type."
    ELSE IF form.new_username \in DOMAIN profiles
    THEN "Username already exists."
    ELSE "none"

\* profile_page.py:67-83, the entry the profile page stores for a user the
\* file does not hold
default_entry ==
    [k \in {"email", "password", "host_is_superhost", "host_listings_count",
            "host_identity_verified", "bathrooms", "bedrooms", "arrondissement",
            "room_type", "num_rooms", "amenities", "Number of rooms renting",
            "furnished"} |->
        CASE k \in {"email", "password"} -> PyStr("")
          [] k \in {"host_is_superhost", "host_identity_verified", "furnished"} -> PyBool(FALSE)
          [] k \in {"host_listings_count", "bathrooms", "bedrooms"} -> PyInt(0)
          [] k \in {"arrondissement", "num_rooms"} -> PyInt(1)
          [] k = "room_type" -> PyStr("Private room")
          [] k = "Number of rooms renting" -> PyInt(2)
          [] OTHER -> PyList(<<>>)]

\* how many sign-ups one session may complete
MaxSignUps == 1

\* the session's script is between two runs
Idle == ret["login_page"].at \in {"idle", "rejected", "done"}

LoggedIn == dict_get(session_state, "logged_in", PyBool(FALSE)) = PyBool(TRUE)

\* home.py:29-38 and the run st.rerun() starts: the button of the home page
HomeButton ==
    /\ Idle /\ ~LoggedIn
    /\ ret["main"].rendered = "home"
    /\ \E run \in {main(dict_set(session_state, "page", PyStr("login")), NoSelection)} :
           /\ session_state' = run.session_state
           /\ ret' = [ret EXCEPT !["main"] = [rendered |-> run.rendered]]
    /\ UNCHANGED <<globals, profiles_json, peer, user_data, csv_airbnb, csv_renting>>

LoginNames == {"", "alice", "bob"}
LoginPasswords == {"", "pw1", "pw2"}

\* login.py:95-112 within main: the login form is submitted
LoginSubmit ==
    /\ Idle /\ ~LoggedIn
    /\ ret["main"].rendered = "login"
    /\ \E username \in LoginNames, password \in LoginPasswords :
           \E ok \in {username # "" /\ password # ""
                          /\ validate_user(profiles_json, username, password)} :
               \E run \in {IF ok THEN main(log_in(session_state, username), NoSelection)
                           ELSE main(session_state, NoSelection)} :
                   /\ session_state' = run.session_state
                   /\ ret' = [ret EXCEPT !["main"] = [rendered |-> run.rendered]]
    /\ UNCHANGED <<globals, profiles_json, peer, user_data, csv_airbnb, csv_renting>>

\* login.py:117-221 within main: the sign-up button is pressed; the run reads
\* the file (123), checks the form and puts the entry in the dict it read,
\* the dict the script holds until the run ends
SignUpLoad ==
    /\ Idle /\ ~LoggedIn
    /\ ret["main"].rendered = "login"
    /\ ret["login_page"].count < MaxSignUps
    /\ \E form \in SignUpForms :
           \E profiles \in {load_data(profiles_json)} :
               \E error \in {signup_error(form, profiles)} :
                   IF error # "none"
                   THEN /\ ret' = [ret EXCEPT !["login_page"] =
                                      [at |-> "rejected", error |-> error,
                                       count |-> ret["login_page"].count]]
                        /\ user_data' = EmptyDict
                   ELSE /\ ret' = [ret EXCEPT !["login_page"] =
                                      [at |-> "validated", form |-> form,
                                       count |-> ret["login_page"].count + 1]]
                        /\ user_data' = dict_set(profiles, form.new_username,
                                                 signup_entry(form))
    /\ UNCHANGED <<globals, profiles_json, peer, csv_airbnb, csv_renting, session_state>>

\* login.py:58, save_data opens the file for writing
SignUpOpen ==
    /\ ret["login_page"].at = "validated"
    /\ profiles_json' = EmptyFile
    /\ ret' = [ret EXCEPT !["login_page"].at = "opened"]
    /\ UNCHANGED <<globals, peer, user_data, csv_airbnb, csv_renting, session_state>>

\* json.dump into the open file (login.py:59): the file holds the dict, or,
\* when another session has written it since this one opened it, the dict's
\* text over the other's, which may be no JSON
json_dump(file, data) ==
    IF file = EmptyFile THEN {JsonFile(data)} ELSE {JsonFile(data), TornFile}

\* login.py:59 and 227-231 and the run st.rerun() starts
SignUpDump ==
    /\ ret["login_page"].at = "opened"
    /\ profiles_json' \in json_dump(profiles_json, user_data)
    /\ \E run \in {main(log_in(session_state, ret["login_page"].form.new_username),
                        NoSelection)} :
           /\ session_state' = run.session_state
           /\ ret' = [ret EXCEPT !["main"] = [rendered |-> run.rendered],
                                 !["login_page"].at = "done"]
    /\ user_data' = EmptyDict
    /\ UNCHANGED <<globals, peer, csv_airbnb, csv_renting>>

\* profile_page.py:55-83, what rendering the profile page does to the file:
\* it stores the default entry for a user the file does not hold
profile_page_file(file, ss) ==
    LET username == ss["username"]
        profile_data == load_data(file)
    IN  IF username = PyNone \/ username.str \in DOMAIN profile_data THEN file
        ELSE JsonFile(dict_set(profile_data, username.str, default_entry))

\* main.py:86-96: the user picks a page in the sidebar
SidebarSelect ==
    /\ Idle /\ LoggedIn
    /\ \E selection \in DashboardPages :
           \E run \in {main(session_state, PyStr(selection))} :
               /\ session_state' = run.session_state
               /\ ret' = [ret EXCEPT !["main"] = [rendered |-> run.rendered]]
               /\ profiles_json' = IF run.rendered = "Profile"
                                   THEN profile_page_file(profiles_json, run.session_state)
                                   ELSE profiles_json
    /\ UNCHANGED <<globals, peer, user_data, csv_airbnb, csv_renting>>

\* profile_page.py:209-215 and the run st.rerun() starts: the logout button
Logout ==
    /\ Idle /\ LoggedIn
    /\ ret["main"].rendered = "Profile"
    /\ \E run \in {main(logout(session_state), NoSelection)} :
           /\ session_state' = run.session_state
           /\ ret' = [ret EXCEPT !["main"] = [rendered |-> run.rendered]]
    /\ UNCHANGED <<globals, profiles_json, peer, user_data, csv_airbnb, csv_renting>>

\* the entry the file may hold of an earlier sign-up
StoredAlice == signup_entry(SignUpForm("alice", "pw1", "pw1", "a@x", "Entire home/apt", 10))

\* a session that has run main() once: the defaults, the home page
NewSession ==
    [user_data |-> EmptyDict,
     session_state |-> init_session(EmptyDict),
     ret |-> [main |-> [rendered |-> "home"], login_page |-> [at |-> "idle", count |-> 0]]]

InitLogin ==
    /\ Loaded(SchemaFull, 0)
    /\ csv_airbnb = NoFile
    /\ csv_renting = NoFile
    /\ profiles_json \in {NoFile, JsonFile(dict_set(EmptyDict, "alice", StoredAlice))}
    /\ user_data = NewSession.user_data
    /\ session_state = NewSession.session_state
    /\ ret = NewSession.ret
    /\ peer = NewSession

NextLogin ==
    \/ HomeButton
    \/ LoginSubmit
    \/ SignUpLoad
    \/ SignUpOpen
    \/ SignUpDump
    \/ SidebarSelect
    \/ Logout
    \/ Switch

SpecLogin == InitLogin /\ [][NextLogin]_vars

----------------------------------------------------------------------------
(* The feature builders. *)

AirbnbBuilt == ret["build_airbnb_feature_df"]
RentingBuilt == ret["build_renting_feature_df"]

\* C1: whatever the profile and the schema, the frame build_airbnb_feature_df
\* returns has the schema as its column sequence (same length, names and
\* order: nothing added, dropped or moved) and one cell per column.
SchemaOrder ==
    AirbnbBuilt # NoCall =>
        /\ AirbnbBuilt.df.columns = airbnb_features
        /\ Len(AirbnbBuilt.df.row) = Len(airbnb_features)

\* a frame built under the schema that lacks a scalar column the builder
\* writes, from a profile with amenities
SchemaOrderWitness ==
    /\ AirbnbBuilt # NoCall
    /\ airbnb_features = SchemaReordered
    /\ dict_get(AirbnbBuilt.arg, "amenities", PyNone) = PyList(<<HotTub, Wifi>>)
    /\ DfGet(AirbnbBuilt.df, "amenity__hot_tub") = PyInt(1)

RoomTypeOf(profile) == dict_get(profile, "room_type", PyStr("Entire home/apt"))

RoomOnes(df) == {c \in Range(RoomCols) : DfHas(df, c) /\ DfGet(df, c) = PyInt(1)}

\* C2: in the frame build_airbnb_feature_df returns, each room column the
\* schema declares is 1 if it is the column of the profile's room_type and 0
\* if not; so with the four room columns declared, a canonical room_type has
\* exactly one of them at 1, its own, and any other room_type has all four
\* at 0.
RoomOneHot ==
    AirbnbBuilt # NoCall =>
        LET df == AirbnbBuilt.df
            room_type == RoomTypeOf(AirbnbBuilt.arg)
        IN  /\ \A rt \in Range(ROOM_TYPES) :
                   DfHas(df, RoomCol(rt)) =>
                       DfGet(df, RoomCol(rt)) =
                           PyInt(IF room_type = PyStr(rt) THEN 1 ELSE 0)
            /\ Range(RoomCols) \subseteq Range(df.columns) =>
                   /\ \A rt \in Range(ROOM_TYPES) :
                          room_type = PyStr(rt) => RoomOnes(df) = {RoomCol(rt)}
                   /\ (\A rt \in Range(ROOM_TYPES) : room_type # PyStr(rt)) =>
                          RoomOnes(df) = {}

\* a frame with the four room columns built from a profile whose room type
\* is canonical and not the default
RoomOneHotWitness ==
    /\ AirbnbBuilt # NoCall
    /\ Range(RoomCols) \subseteq Range(AirbnbBuilt.df.columns)
    /\ RoomTypeOf(AirbnbBuilt.arg) = PyStr("Private room")
    /\ RoomOnes(AirbnbBuilt.df) = {"room_Private room"}

\* C3: in the frame build_renting_feature_df returns, one of the furnished
\* and unfurnished columns is 1 and the other is 0, and the furnished one is
\* 1 exactly when the profile's furnished flag is truthy (absent, None and
\* False are not).
FurnishedExclusive ==
    RentingBuilt # NoCall =>
        LET meuble == DfGet(RentingBuilt.df, "Type de locationom_meuble")
            non_meuble == DfGet(RentingBuilt.df, "Type de locationom_non meuble")
            flagged == dict_get(RentingBuilt.arg, "furnished", PyNone) = PyBool(TRUE)
        IN  /\ <<meuble, non_meuble>> \in {<<PyInt(1), PyInt(0)>>, <<PyInt(0), PyInt(1)>>}
            /\ meuble = PyInt(1) <=> flagged

\* a frame built from a profile that has no furnished flag
FurnishedExclusiveWitness ==
    /\ RentingBuilt # NoCall
    /\ "furnished" \notin DOMAIN RentingBuilt.arg
    /\ DfGet(RentingBuilt.df, "Type de locationom_non meuble") = PyInt(1)

----------------------------------------------------------------------------
(* The amenity maps. *)

AmenityColumns == amenity_cols(airbnb_features)

\* the amenity column at position i is the last one of its label
LastOfLabel(i) ==
    \A j \in DOMAIN AmenityColumns :
        j > i => amenity_col_to_label[AmenityColumns[j]] #
                     amenity_col_to_label[AmenityColumns[i]]

\* C4: for a schema with N amenity columns, col_to_label has N entries, one
\* per column, and label_to_col has one entry per distinct label: N entries
\* when no two columns share a label, fewer when some do.  Then
\* col_to_label[label_to_col[l]] = l for every label l, and
\* label_to_col[col_to_label[c]] = c exactly for the columns c that are the
\* last of their label in the schema.
AmenityMapsLastWins ==
    /\ DOMAIN amenity_col_to_label = Range(AmenityColumns)
    /\ Cardinality(DOMAIN amenity_col_to_label) = Len(AmenityColumns)
    /\ DOMAIN label_to_amenity_col =
           {amenity_col_to_label[c] : c \in Range(AmenityColumns)}
    /\ Cardinality(DOMAIN label_to_amenity_col) <= Len(AmenityColumns)
    /\ Cardinality(DOMAIN label_to_amenity_col) = Len(AmenityColumns) <=>
           \A i \in DOMAIN AmenityColumns : LastOfLabel(i)
    /\ \A l \in DOMAIN label_to_amenity_col :
           amenity_col_to_label[label_to_amenity_col[l]] = l
    /\ \A i \in DOMAIN AmenityColumns :
           label_to_amenity_col[amenity_col_to_label[AmenityColumns[i]]] =
               AmenityColumns[i]
           <=> LastOfLabel(i)

\* the maps of the schema in which two amenity columns have the label Wifi
AmenityMapsLastWinsWitness ==
    /\ airbnb_features = SchemaCollision
    /\ Len(AmenityColumns) = 3
    /\ amenity_col_to_label["amenity__wifi"] = Wifi
    /\ amenity_col_to_label["amenity__wifi_"] = Wifi
    /\ label_to_amenity_col[Wifi] = "amenity__wifi_"

\* C4 as the specification states it: both maps have N entries and each is
\* the inverse of the other.
AmenityMapsBijective ==
    /\ Cardinality(DOMAIN label_to_amenity_col) = Len(AmenityColumns)
    /\ Cardinality(DOMAIN amenity_col_to_label) = Len(AmenityColumns)
    /\ \A l \in DOMAIN label_to_amenity_col :
           amenity_col_to_label[label_to_amenity_col[l]] = l
    /\ \A c \in Range(AmenityColumns) :
           label_to_amenity_col[amenity_col_to_label[c]] = c

----------------------------------------------------------------------------
(* Repeated calls of the feature builders. *)

\* C5: a call of a builder on the profile of its previous call returns the
\* frame that call returned, whatever builder and prediction calls came in
\* between, and no call of a builder changes the dict it is given.
BuildersPure ==
    [][/\ \A f \in {"build_airbnb_feature_df", "build_renting_feature_df"} :
              (ret[f] # NoCall /\ ret'[f] # NoCall /\ ret'[f].arg = ret[f].arg)
                  => ret'[f].df = ret[f].df
       /\ (BuildAirbnbFeatureDf \/ BuildRentingFeatureDf) => user_data' = user_data
      ]_vars

\* both builders and the prediction functions have been called on a profile
\* that has amenities
BuildersPureWitness ==
    /\ AirbnbBuilt # NoCall
    /\ RentingBuilt # NoCall
    /\ ret["run_computations_airbnb"] # NoCall
    /\ ret["predict_all_arrondissement_prices"] # NoCall
    /\ ret["calculate_price_impact_kpis"] # NoCall
    /\ dict_get(user_data, "amenities", PyNone) = PyList(<<HotTub, Wifi>>)

----------------------------------------------------------------------------
(* The confidence intervals.  Amounts are in cents. *)

AirbnbCI == ret["airbnb_confidence_interval"]
RentingCI == ret["renting_confidence_interval"]

\* the buckets as <<exclusive upper bound, RMSE>>, and the catch-all RMSE
NightlyBuckets == <<<<10200, 4020>>, <<15100, 4044>>, <<23900, 5307>>>>
NightlyCatchAll == <<11552>>
RentBuckets == <<<<56017, 3029>>, <<137923, 8773>>, <<202577, 15946>>>>
RentCatchAll == <<19143>>

\* the RMSE of the first bucket whose upper bound exceeds the point
BucketRmse(buckets, catch_all, point) ==
    LET above == {i \in DOMAIN buckets : buckets[i][1] > point}
    IN  IF above = {} THEN catch_all[1]
        ELSE buckets[CHOOSE i \in above : \A j \in above : i <= j][2]

\* C6: each lookup returns (point - rmse, point + rmse) where rmse is that of
\* the first bucket whose exclusive upper bound exceeds the point, the last
\* bucket catching the rest; a point equal to a bound is in the next bucket,
\* and a negative point is in the first.
BucketSelection ==
    /\ AirbnbCI # NoCall =>
           AirbnbCI.value =
               <<AirbnbCI.arg - BucketRmse(NightlyBuckets, NightlyCatchAll, AirbnbCI.arg),
                 AirbnbCI.arg + BucketRmse(NightlyBuckets, NightlyCatchAll, AirbnbCI.arg)>>
    /\ RentingCI # NoCall =>
           RentingCI.value =
               <<RentingCI.arg - BucketRmse(RentBuckets, RentCatchAll, RentingCI.arg),
                 RentingCI.arg + BucketRmse(RentBuckets, RentCatchAll, RentingCI.arg)>>

\* the nightly lookup at its first bound and the rent lookup at a negative point
BucketSelectionWitness ==
    /\ AirbnbCI # NoCall
    /\ AirbnbCI.arg = 10200
    /\ AirbnbCI.value = <<10200 - 4044, 10200 + 4044>>
    /\ RentingCI # NoCall
    /\ RentingCI.arg = -5000
    /\ RentingCI.value = <<-5000 - 3029, -5000 + 3029>>

\* C7: for both lookups the point lies within the interval, at the same
\* distance from both ends, and of two points the greater one never has the
\* smaller RMSE (the RMSE being the distance from the point to either end).
IntervalShape ==
    [][\A f \in {"airbnb_confidence_interval", "renting_confidence_interval"} :
           ret'[f] # NoCall =>
               /\ ret'[f].value[1] <= ret'[f].arg
               /\ ret'[f].arg <= ret'[f].value[2]
               /\ ret'[f].arg - ret'[f].value[1] = ret'[f].value[2] - ret'[f].arg
               /\ (ret[f] # NoCall /\ ret[f].arg <= ret'[f].arg) =>
                      ret[f].arg - ret[f].value[1] <= ret'[f].arg - ret'[f].value[1]
               /\ (ret[f] # NoCall /\ ret'[f].arg <= ret[f].arg) =>
                      ret'[f].arg - ret'[f].value[1] <= ret[f].arg - ret[f].value[1]
      ]_vars

\* the rent lookup in its third bucket and the nightly lookup in its last
IntervalShapeWitness ==
    /\ RentingCI # NoCall
    /\ RentingCI.arg = 137923
    /\ RentingCI.value[2] - RentingCI.arg = 15946
    /\ AirbnbCI # NoCall
    /\ AirbnbCI.arg = 23900
    /\ AirbnbCI.arg - AirbnbCI.value[1] = 11552

----------------------------------------------------------------------------
(* The impact KPIs. *)

Kpis == ret["calculate_price_impact_kpis"]

\* C8: whatever the profile and the price passed in, a result of
\* calculate_price_impact_kpis has location_impact equal to the price passed
\* in less median_location_price, and quality_impact equal to
\* median_location_price less baseline_price.
KpiArithmetic ==
    (Kpis # NoCall /\ Kpis.exc = "none") =>
        /\ Kpis.value.location_impact = Kpis.price - Kpis.value.median_location_price
        /\ Kpis.value.quality_impact =
               Kpis.value.median_location_price - Kpis.value.baseline_price

\* a result for a price that differs from both counterfactual prices, which
\* differ from each other
KpiArithmeticWitness ==
    /\ Kpis # NoCall
    /\ Kpis.exc = "none"
    /\ Kpis.price > 0
    /\ Kpis.value.location_impact # 0
    /\ Kpis.value.quality_impact # 0
    /\ Kpis.value.location_impact # Kpis.value.quality_impact

\* C9: a call of calculate_price_impact_kpis with the profile and the price
\* of its previous call ends as that call did, with the same four integers,
\* whatever was called in between, and no call of it changes the dict it is
\* given.
KpisPure ==
    [][/\ (/\ Kpis # NoCall
           /\ Kpis' # NoCall
           /\ Kpis'.arg = Kpis.arg
           /\ Kpis'.price = Kpis.price)
              => /\ Kpis'.exc = Kpis.exc
                 /\ Kpis.exc = "none" => Kpis'.value = Kpis.value
       /\ CalculatePriceImpactKpis => user_data' = user_data
      ]_vars

\* a result computed after the nightly price was stored in the session
KpisPureWitness ==
    /\ Kpis # NoCall
    /\ Kpis.exc = "none"
    /\ Kpis.arg = user_data
    /\ "user_price_prediction" \in DOMAIN session_state
    /\ Kpis.price # session_state["user_price_prediction"].int
    /\ ret["predict_all_arrondissement_prices"] # NoCall

----------------------------------------------------------------------------
(* The sweep over the arrondissements. *)

Sweep == ret["predict_all_arrondissement_prices"]

\* the arrondissement columns of a frame that hold 1
ArrondissementOnes(df) ==
    {c \in ArrondissementColumnSet : DfHas(df, c) /\ DfGet(df, c) = PyInt(1)}

\* the sweep returned 20 rows, row n carrying number n and the INSEE code of n
TwentyRowsInOrder ==
    /\ Sweep.exc = "none"
    /\ Len(Sweep.rows) = 20
    /\ \A n \in 1..20 :
           /\ Sweep.rows[n].Arrondissement_Number = n
           /\ Sweep.rows[n].Arrondissement_Code = py_str_int(75100 + n)

\* C10: whatever the profile and the schema, predict_all_arrondissement_prices
\* returns 20 rows, one per arrondissement number 1..20 in that order; the
\* frame scored for row n has the columns of the schema, and each of its
\* arrondissement columns is 1 if it is the column mapped to n and 0 if not:
\* so exactly one arrondissement column is 1 when the schema declares the
\* column mapped to n, and none is when it does not.
SweepOneHot ==
    Sweep # NoCall =>
        /\ TwentyRowsInOrder
        /\ \A n \in 1..20 :
               /\ Sweep.scored[n].columns = airbnb_features
               /\ ArrondissementOnes(Sweep.scored[n]) =
                      {ARRONDISSEMENT_MAP[n]} \cap Range(airbnb_features)
               /\ \A c \in ArrondissementColumnSet \cap Range(airbnb_features) :
                      DfGet(Sweep.scored[n], c) \in {PyInt(0), PyInt(1)}

\* a sweep under the schema that declares no column for the 10th
\* arrondissement, on a profile located in the 20th
SweepOneHotWitness ==
    /\ Sweep # NoCall
    /\ Sweep.exc = "none"
    /\ airbnb_features = SchemaDropFirst
    /\ dict_get(Sweep.arg, "arrondissement", PyNone) = PyInt(20)
    /\ ArrondissementOnes(Sweep.scored[10]) = {}
    /\ ArrondissementOnes(Sweep.scored[1]) = {"Arrondissement_1er"}

\* C10 as the specification states it: 20 rows in order, and in the frame
\* scored for row n exactly one arrondissement column is 1, the one mapped
\* to n.
SweepExactlyOne ==
    Sweep # NoCall =>
        /\ TwentyRowsInOrder
        /\ \A n \in 1..20 :
               ArrondissementOnes(Sweep.scored[n]) = {ARRONDISSEMENT_MAP[n]}

----------------------------------------------------------------------------
(* The defaults of the nightly builder. *)

\* the documented defaults, as the fields of a profile
DocumentedDefaults ==
    [host_is_superhost |-> PyBool(FALSE),
     host_listings_count |-> PyInt(0),
     bathrooms |-> PyInt(1),
     bedrooms |-> PyInt(1),
     arrondissement |-> PyInt(1),
     room_type |-> PyStr("Entire home/apt")]

\* the profile with each documented default written where the field is missing
WithDefaults(profile) ==
    [k \in DOMAIN profile \cup DOMAIN DocumentedDefaults |->
        IF k \in DOMAIN profile THEN profile[k] ELSE DocumentedDefaults[k]]

\* the column of the frame holds the value, if the schema declares the column
CellIs(df, c, n) == DfHas(df, c) => DfGet(df, c) = PyInt(n)

\* C11: where a field of the profile is missing, build_airbnb_feature_df
\* writes the documented default: 0 for host_is_superhost and
\* host_listings_count, 1 for bathrooms and bedrooms, Arrondissement_1er for
\* the arrondissement, room_Entire home/apt for the room type; and the frame
\* is the frame built from the profile with those defaults written in.
DefaultsSubstituted ==
    AirbnbBuilt # NoCall =>
        LET df == AirbnbBuilt.df
            missing(k) == k \notin DOMAIN AirbnbBuilt.arg
        IN  /\ missing("host_is_superhost") => CellIs(df, "host_is_superhost", 0)
            /\ missing("host_listings_count") => CellIs(df, "host_listings_count", 0)
            /\ missing("bathrooms") => CellIs(df, "bathrooms_text", 1)
            /\ missing("bedrooms") => CellIs(df, "bedrooms", 1)
            /\ missing("arrondissement") =>
                   \A c \in ArrondissementColumnSet :
                       CellIs(df, c, IF c = "Arrondissement_1er" THEN 1 ELSE 0)
            /\ missing("room_type") =>
                   \A c \in Range(RoomCols) :
                       CellIs(df, c, IF c = "room_Entire home/apt" THEN 1 ELSE 0)
            /\ df = build_airbnb_feature_df(WithDefaults(AirbnbBuilt.arg)).df

\* a frame built from a profile without arrondissement and without bedrooms
DefaultsSubstitutedWitness ==
    /\ AirbnbBuilt # NoCall
    /\ "arrondissement" \notin DOMAIN AirbnbBuilt.arg
    /\ "bedrooms" \notin DOMAIN AirbnbBuilt.arg
    /\ DfHas(AirbnbBuilt.df, "Arrondissement_1er")
    /\ DfGet(AirbnbBuilt.df, "Arrondissement_1er") = PyInt(1)
    /\ DfGet(AirbnbBuilt.df, "bedrooms") = PyInt(1)

----------------------------------------------------------------------------
(* The arrondissement group of both builders. *)

\* int(user_profile.get("arrondissement", 1)) of the profile of a call
ArrondissementOf(profile) == py_int(dict_get(profile, "arrondissement", PyInt(1)))

\* the arrondissement group of the frame of a call encodes the profile's number
ArrondissementEncoded(call) ==
    LET df == call.df
        arr_num == ArrondissementOf(call.arg)
        ones == ArrondissementOnes(df)
    IN  /\ \A c \in ArrondissementColumnSet :
               DfHas(df, c) => DfGet(df, c) \in {PyInt(0), PyInt(1)}
        /\ Cardinality(ones) <= 1
        /\ (arr_num \in 1..20 /\ DfHas(df, ARRONDISSEMENT_MAP[arr_num])) =>
               ones = {ARRONDISSEMENT_MAP[arr_num]}
        /\ arr_num \notin 1..20 => ones = {}

\* C12: in the frame of either builder at most one arrondissement column is
\* 1; for a number in 1..20 whose column the schema declares, that column is
\* 1 and every other arrondissement column is 0; for a number outside 1..20
\* the builder returns a frame with every arrondissement column at 0.
ArrondissementOneHot ==
    /\ AirbnbBuilt # NoCall => ArrondissementEncoded(AirbnbBuilt)
    /\ RentingBuilt # NoCall => ArrondissementEncoded(RentingBuilt)

\* both builders called on a profile whose arrondissement is 21
ArrondissementOneHotWitness ==
    /\ AirbnbBuilt # NoCall
    /\ RentingBuilt # NoCall
    /\ ArrondissementOf(RentingBuilt.arg) = 21
    /\ ArrondissementOf(AirbnbBuilt.arg) = 21
    /\ ArrondissementOnes(RentingBuilt.df) = {}
    /\ DfGet(AirbnbBuilt.df, "Arrondissement_20e") = PyInt(0)

----------------------------------------------------------------------------
(* The amenity group of the nightly builder. *)

\* the amenity labels of a profile, none for a missing or null list
LabelsOf(profile) ==
    IF "amenities" \in DOMAIN profile /\ IsPyList(profile["amenities"])
    THEN profile["amenities"].list ELSE <<>>

\* the profile with the labels dropped that the catalog does not know
ResolvableOnly(profile) ==
    IF "amenities" \in DOMAIN profile /\ IsPyList(profile["amenities"])
    THEN [profile EXCEPT !["amenities"] =
             PyList(SelectSeq(profile["amenities"].list,
                              LAMBDA l : l \in DOMAIN label_to_amenity_col))]
    ELSE profile

\* the amenity columns of a frame that hold 1
AmenityOnes(df) ==
    {c \in Range(AmenityColumns) : DfHas(df, c) /\ DfGet(df, c) = PyInt(1)}

\* C13: in the frame build_airbnb_feature_df returns, the amenity columns at
\* 1 are the columns the catalog maps the profile's labels to, for the labels
\* the catalog knows and the columns the schema declares; a label the catalog
\* does not know changes nothing (the frame is the frame built without it);
\* an empty, missing or null list leaves every amenity column at 0.
AmenitiesManyHot ==
    AirbnbBuilt # NoCall =>
        LET df == AirbnbBuilt.df
            labels == Range(LabelsOf(AirbnbBuilt.arg))
        IN  /\ AmenityOnes(df) =
                   {label_to_amenity_col[l] : l \in labels \cap DOMAIN label_to_amenity_col}
                       \cap Range(airbnb_features)
            /\ \A c \in Range(AmenityColumns) : DfGet(df, c) \in {PyInt(0), PyInt(1)}
            /\ df = build_airbnb_feature_df(ResolvableOnly(AirbnbBuilt.arg)).df
            /\ labels = {} => AmenityOnes(df) = {}

\* a frame built from a profile with one label the catalog knows and one it
\* does not
AmenitiesManyHotWitness ==
    /\ AirbnbBuilt # NoCall
    /\ LabelsOf(AirbnbBuilt.arg) = <<Sauna, HotTub>>
    /\ Sauna \notin DOMAIN label_to_amenity_col
    /\ AmenityOnes(AirbnbBuilt.df) = {"amenity__hot_tub"}

----------------------------------------------------------------------------
(* The schema of the rent builder. *)

\* the columns written out in computations.py:113-124, in their order
RentColumnsInOrder ==
    <<"Nombre de pieces principales",
      "Arrondissement_10e", "Arrondissement_11e", "Arrondissement_12e",
      "Arrondissement_13e", "Arrondissement_14e", "Arrondissement_15e",
      "Arrondissement_16e", "Arrondissement_17e", "Arrondissement_18e",
      "Arrondissement_19e", "Arrondissement_1er", "Arrondissement_20e",
      "Arrondissement_2e", "Arrondissement_3e", "Arrondissement_4e",
      "Arrondissement_5e", "Arrondissement_6e", "Arrondissement_7e",
      "Arrondissement_8e", "Arrondissement_9e",
      "Type de locationom_meuble", "Type de locationom_non meuble">>

\* the room-count column holds the profile's value, None where it has none
RoomCountCopied ==
    DfGet(RentingBuilt.df, "Nombre de pieces principales") =
        IF "Number of rooms renting" \in DOMAIN RentingBuilt.arg
        THEN RentingBuilt.arg["Number of rooms renting"]
        ELSE PyNone

\* C14: build_renting_feature_df always returns the hard-coded columns in
\* their order: the room count, the 20 arrondissement columns, furnished and
\* unfurnished, 23 columns in all; the room-count column holds the profile's
\* room count as it is, and None when the profile has none (the builder
\* returns then too).
RentSchemaFixed ==
    RentingBuilt # NoCall =>
        /\ RentingBuilt.df.columns = RentColumnsInOrder
        /\ Len(RentingBuilt.df.columns) = 23
        /\ Len(RentingBuilt.df.row) = 23
        /\ Cardinality(Range(RentingBuilt.df.columns) \cap ArrondissementColumnSet) = 20
        /\ RoomCountCopied

\* a frame built from a profile without a room count
RentSchemaFixedWitness ==
    /\ RentingBuilt # NoCall
    /\ "Number of rooms renting" \notin DOMAIN RentingBuilt.arg
    /\ DfGet(RentingBuilt.df, "Nombre de pieces principales") = PyNone
    /\ DfGet(RentingBuilt.df, "Type de locationom_meuble") = PyInt(1)

\* C14 as the specification states it: the frame has 22 columns.
RentSchemaTwentyTwo ==
    RentingBuilt # NoCall =>
        /\ Len(RentingBuilt.df.columns) = 22
        /\ RoomCountCopied

----------------------------------------------------------------------------
(* The prices run_computations_airbnb and run_computations_renting store. *)

RunAirbnb == ret["run_computations_airbnb"]
RunRenting == ret["run_computations_renting"]

\* the integer nearest to a number in thousandths, a tie to the even one
NearestInt(x) ==
    LET q == x \div 1000
        r == x % 1000
    IN  IF r > 500 \/ (r = 500 /\ q % 2 = 1) THEN q + 1 ELSE q

\* the raw output of the nightly model for the frame of a profile
NightlyRaw(profile) ==
    model_predict(model_airbnb_price, build_airbnb_feature_df(profile).df)

\* C15: the nightly price run_computations_airbnb stores is exp(x) - 1
\* rounded to the nearest integer, x being the raw output of the nightly
\* model for the profile's frame.
NightlyRoundedToNearest ==
    (RunAirbnb # NoCall /\ NightlyRaw(RunAirbnb.arg).exc = "none") =>
        session_state["user_price_prediction"] =
            PyInt(NearestInt(expm1(NightlyRaw(RunAirbnb.arg).value)))

\* the raw output of the cleaning model for the frame of a profile
CleaningRaw(profile) ==
    LET df == build_airbnb_feature_df(profile).df
    IN  model_predict(model_cleaning_costs,
                      DataFrame(<<DfGet(df, "bedrooms"), DfGet(df, "bathrooms_text")>>,
                                <<"Bedroom", "Bathroom">>))

\* the raw output of the rent model for the frame of a profile
RentingRaw(profile) ==
    model_predict(model_renting_price, build_renting_feature_df(profile).df)

\* a stored result is an integer, negative exactly when the number it was
\* cut from (in thousandths) is -1 or less
CutFrom(stored, number) ==
    /\ IsPyInt(stored)
    /\ stored.int \in Int
    /\ stored.int >= 0 <=> number > -1000

----------------------------------------------------------------------------
(* Failures of the models, in a run of a page. *)

AirbnbPageRun == ret["airbnb_page"]
RentingPageRun == ret["renting_page"]

\* the sweep of a profile meets a frame the nightly model rejects
SweepRaises(profile) ==
    \E n \in 1..20 :
        model_predict(model_airbnb_price,
                      sweep_vector(build_airbnb_feature_df(profile).df, n)).exc
            # "none"

\* the KPIs of a profile meet a frame the nightly model rejects
KpisRaise(profile) ==
    LET df_median == median_vector(build_airbnb_feature_df(profile).df)
    IN  \/ model_predict(model_airbnb_price, df_median).exc # "none"
        \/ model_predict(model_airbnb_price, baseline_vector(df_median)).exc
               # "none"

\* a model rejected a frame during the last run of the Airbnb page
AirbnbPageHitFailure ==
    /\ AirbnbPageRun # NoCall
    /\ \/ NightlyRaw(AirbnbPageRun.arg).exc # "none"
       \/ CleaningRaw(AirbnbPageRun.arg).exc # "none"
       \/ SweepRaises(AirbnbPageRun.arg)
       \/ KpisRaise(AirbnbPageRun.arg)

\* a model rejected a frame during the last run of the renting page
RentingPageHitFailure ==
    /\ RentingPageRun # NoCall
    /\ RentingRaw(RentingPageRun.arg).exc # "none"

----------------------------------------------------------------------------
(* Two sessions. *)

\* the session whose call runs next, as the record the other one is kept in
Own == [user_data |-> user_data, session_state |-> session_state, ret |-> ret]

\* the functions that write data/user_dataset_airbnb.csv, each through
\* build_airbnb_feature_df, and those that write data/user_dataset_renting.csv
AirbnbCsvWriters ==
    {"build_airbnb_feature_df", "run_computations_airbnb",
     "predict_all_arrondissement_prices", "calculate_price_impact_kpis"}
RentingCsvWriters == {"build_renting_feature_df", "run_computations_renting"}

\* a session has called one of the functions
Called(session, functions) == \E f \in functions : session.ret[f] # NoCall

\* what the calls of a session returned and stored is what they return and
\* store for the profile of that session alone
OutputsOfOwnProfile(session) ==
    LET built == session.ret["build_airbnb_feature_df"]
        rent_built == session.ret["build_renting_feature_df"]
        ran == session.ret["run_computations_airbnb"]
        rent_ran == session.ret["run_computations_renting"]
        frame == feature_row(airbnb_feat(session.user_data), airbnb_features)
        rent_frame == feature_row(renting_feat(session.user_data), rent_features)
        nightly == model_predict(model_airbnb_price, frame)
        rent == model_predict(model_renting_price, rent_frame)
    IN  /\ built # NoCall => built.arg = session.user_data /\ built.df = frame
        /\ rent_built # NoCall =>
               rent_built.arg = session.user_data /\ rent_built.df = rent_frame
        /\ (ran # NoCall /\ nightly.exc = "none") =>
               session.session_state["user_price_prediction"] =
                   PyInt(int_of_float(expm1(round4(nightly.value))))
        /\ (rent_ran # NoCall /\ rent.exc = "none") =>
               session.session_state["user_renting_price_prediction"] =
                   PyInt(int_of_float(rent.value))
        /\ (rent_ran # NoCall /\ rent.exc # "none") =>
               /\ rent_ran.exc = rent.exc
               /\ "user_renting_price_prediction" \notin DOMAIN session.session_state

\* Whatever the interleaving of the calls of two sessions, each session's
\* frames and stored predictions are those of its own profile: the two files
\* are the only locations both sessions write, and no function reads them.
SessionOutputsIsolated ==
    peer # NoPeer => OutputsOfOwnProfile(Own) /\ OutputsOfOwnProfile(peer)

\* C18: no location is written by the operations of both of two concurrent
\* sessions (the core shares no writable state).
NoLocationWrittenByBoth ==
    peer # NoPeer =>
        /\ ~(Called(Own, AirbnbCsvWriters) /\ Called(peer, AirbnbCsvWriters))
        /\ ~(Called(Own, RentingCsvWriters) /\ Called(peer, RentingCsvWriters))

\* both sessions have called both builders and both predictions, and the
\* nightly file holds a frame that is not the one this session wrote last
BothSessionsWrote ==
    /\ peer # NoPeer
    /\ \A f \in AirbnbCsvWriters \cup RentingCsvWriters :
           f \in {"predict_all_arrondissement_prices", "calculate_price_impact_kpis"}
               \/ (ret[f] # NoCall /\ peer.ret[f] # NoCall)
    /\ csv_airbnb # ret["build_airbnb_feature_df"].df

----------------------------------------------------------------------------
(* The amenity labels. *)

\* airbnb_page.py:114, the labels the sidebar offers
amenities_options == label_keys(amenity_cols(airbnb_features))

\* the positions of the columns that have a label in col_to_label
ColumnsOfLabel(cols, label) ==
    {i \in DOMAIN cols : amenity_col_to_label[cols[i]] = label}

\* C19: the labels of build_amenity_maps are listed without a duplicate, one
\* per distinct label of the amenity columns; label_to_col maps each label to
\* the last column of the schema that cleans to it, and col_to_label has an
\* entry for every amenity column, those of a shared label included.
LabelsDistinctLastWins ==
    \E cols \in {AmenityColumns}, options \in {amenities_options} :
        /\ \A i \in DOMAIN cols :
               /\ cols[i] \in DOMAIN amenity_col_to_label
               /\ amenity_col_to_label[cols[i]] = clean_amenity_name(cols[i])
        /\ \A i, j \in DOMAIN options : i # j => options[i] # options[j]
        /\ Range(options) = DOMAIN label_to_amenity_col
        /\ Range(options) = {amenity_col_to_label[cols[i]] : i \in DOMAIN cols}
        /\ \A label \in DOMAIN label_to_amenity_col :
               \E i \in ColumnsOfLabel(cols, label) :
                   /\ label_to_amenity_col[label] = cols[i]
                   /\ \A j \in ColumnsOfLabel(cols, label) : j <= i

\* two columns clean to one label: the label is listed once, it maps to the
\* later column, and both columns have their entry in col_to_label
LabelsDistinctLastWinsWitness ==
    \E cols \in {AmenityColumns} :
        /\ \E label \in DOMAIN label_to_amenity_col :
               /\ Cardinality(ColumnsOfLabel(cols, label)) = 2
               /\ \E i \in ColumnsOfLabel(cols, label) :
                      cols[i] # label_to_amenity_col[label]
               /\ \A i \in ColumnsOfLabel(cols, label) :
                      cols[i] \in DOMAIN amenity_col_to_label
        /\ Len(amenities_options) = 2
        /\ Len(cols) = 3
        /\ AirbnbBuilt # NoCall

----------------------------------------------------------------------------
(* The cells of the frames the builders return. *)

\* a frame has one cell per column of the schema, each a number
CompleteNumeric(df, schema) ==
    /\ df.columns = schema
    /\ Len(df.row) = Len(schema)
    /\ \A i \in DOMAIN df.row : IsNumeric(df.row[i])

\* C20: every frame a builder returns has, for each column of its schema,
\* one numeric cell, whatever fields the profile lacks.
VectorsCompleteNumeric ==
    /\ AirbnbBuilt # NoCall => CompleteNumeric(AirbnbBuilt.df, airbnb_features)
    /\ RentingBuilt # NoCall => CompleteNumeric(RentingBuilt.df, rent_features)

\* build_renting_feature_df returned, for a profile without a room count, a
\* frame whose room-count cell is None and whose other cells are numbers,
\* and build_airbnb_feature_df returned a frame of numbers for that profile
RentVectorMissingCell ==
    /\ RentingBuilt # NoCall
    /\ "Number of rooms renting" \notin DOMAIN RentingBuilt.arg
    /\ RentingBuilt.df.columns = rent_features
    /\ DfGet(RentingBuilt.df, "Nombre de pieces principales") = PyNone
    /\ \A i \in DOMAIN RentingBuilt.df.row :
           i # 1 => IsNumeric(RentingBuilt.df.row[i])
    /\ AirbnbBuilt # NoCall
    /\ CompleteNumeric(AirbnbBuilt.df, airbnb_features)

----------------------------------------------------------------------------
(* The counterfactual vectors of the KPIs. *)

\* the nightly vector of the profile of the last call of the KPIs
KpisProfileVector == feature_row(airbnb_feat(Kpis.arg), airbnb_features)

\* C21: the median-location vector calculate_price_impact_kpis scores has
\* every arrondissement column at 0 except the column of arrondissement
\* MEDIAN_ARRONDISSEMENT, which is 1, and every other column of the profile's
\* nightly vector with the value it has there; it has no further column.
MedianVectorLocationOnly ==
    Kpis # NoCall =>
        \E m \in {Kpis.df_median}, v \in {KpisProfileVector} :
            /\ \A c \in ArrondissementColumnSet :
                   /\ DfHas(m, c)
                   /\ DfGet(m, c) =
                          IF c = ARRONDISSEMENT_MAP[MEDIAN_ARRONDISSEMENT]
                          THEN PyInt(1) ELSE PyInt(0)
            /\ \A c \in Range(v.columns) \ ArrondissementColumnSet :
                   DfHas(m, c) /\ DfGet(m, c) = DfGet(v, c)
            /\ Range(m.columns) \subseteq Range(v.columns) \cup ArrondissementColumnSet
            /\ Len(m.row) = Len(m.columns)

\* the KPIs were computed for a profile of another arrondissement than the
\* reference one, with amenities, under a schema that has its column
MedianVectorLocationOnlyWitness ==
    /\ Kpis # NoCall
    /\ Kpis.exc = "none"
    /\ dict_get(Kpis.arg, "arrondissement", PyNone) = PyInt(20)
    /\ DfGet(KpisProfileVector, "Arrondissement_20e") = PyInt(1)
    /\ DfGet(Kpis.df_median, "Arrondissement_20e") = PyInt(0)

\* C22: the baseline vector calculate_price_impact_kpis scores has
\* host_is_superhost 0, host_listings_count 1, bedrooms 1, bathrooms_text 1
\* and every column of the schema that starts with amenity__ at 0, the
\* columns of a label two columns share included; each other column has the
\* value of the median-location vector.
BaselineVectorForced ==
    (Kpis # NoCall /\ "df_base" \in DOMAIN Kpis) =>
        \E b \in {Kpis.df_base}, m \in {Kpis.df_median}, amenities \in {AmenityColumns} :
            /\ Range(b.columns) =
                   Range(m.columns) \cup {"host_is_superhost", "host_listings_count",
                                          "bedrooms", "bathrooms_text"}
            /\ Len(b.row) = Len(b.columns)
            /\ DfGet(b, "host_is_superhost") = PyInt(0)
            /\ DfGet(b, "host_listings_count") = PyInt(1)
            /\ DfGet(b, "bedrooms") = PyInt(1)
            /\ DfGet(b, "bathrooms_text") = PyInt(1)
            /\ \A i \in DOMAIN amenities : DfGet(b, amenities[i]) = PyInt(0)
            /\ \A c \in Range(m.columns) \
                     ({"host_is_superhost", "host_listings_count", "bedrooms",
                       "bathrooms_text"} \cup Range(amenities)) :
                   DfGet(b, c) = DfGet(m, c)

\* the baseline of a superhost's profile with the amenity Wifi, under the
\* schema in which two columns have the label Wifi
BaselineVectorForcedWitness ==
    /\ Kpis # NoCall
    /\ Kpis.exc = "none"
    /\ airbnb_features = SchemaCollision
    /\ DfGet(Kpis.df_median, "amenity__wifi_") = PyInt(1)
    /\ DfGet(Kpis.df_base, "amenity__wifi_") = PyInt(0)
    /\ DfGet(Kpis.df_median, "bedrooms") = PyInt(2)
    /\ DfGet(Kpis.df_median, "host_identity_verified") =
           DfGet(Kpis.df_base, "host_identity_verified")

\* C23: the two deltas calculate_price_impact_kpis returns add up to the
\* price passed in less baseline_price, so baseline_price + quality_impact +
\* location_impact, the total of the waterfall, is the price passed in.
KpisTelescope ==
    (Kpis # NoCall /\ Kpis.exc = "none") =>
        /\ Kpis.value.location_impact + Kpis.value.quality_impact =
               Kpis.price - Kpis.value.baseline_price
        /\ Kpis.value.baseline_price + Kpis.value.quality_impact
               + Kpis.value.location_impact = Kpis.price

\* KPIs with three different prices: the one passed in, the median-location
\* one and the baseline one
KpisTelescopeWitness ==
    /\ Kpis # NoCall
    /\ Kpis.exc = "none"
    /\ Kpis.value.location_impact # 0
    /\ Kpis.value.quality_impact # 0
    /\ Kpis.price # Kpis.value.baseline_price
    /\ Kpis.price > 0

----------------------------------------------------------------------------
(* What the results do not depend on. *)

\* the profiles that differ from a profile in the arrondissement only
OtherArrondissements(profile) ==
    {Vary(profile, "arrondissement", a) : a \in Alternatives("arrondissement")
                                              \cup {BaseProfile["arrondissement"]}}
        \ {profile}

\* the schema has the 20 arrondissement columns
AllArrondissementsDeclared == ArrondissementColumnSet \subseteq Range(airbnb_features)

\* C24: under a schema with the 20 arrondissement columns, the rows
\* predict_all_arrondissement_prices returned for a profile are the rows it
\* returns for each profile that differs from it in the arrondissement only.
SweepIgnoresArrondissement ==
    (Sweep # NoCall /\ Sweep.exc = "none" /\ AllArrondissementsDeclared) =>
        \A other \in OtherArrondissements(Sweep.arg) :
            \E r \in {predict_all_arrondissement_prices(other)} :
                r.exc = "none" /\ r.rows = Sweep.rows

\* the sweep of a profile of arrondissement 20, which has four profiles
\* that differ from it in the arrondissement, one of them without the field
SweepIgnoresArrondissementWitness ==
    /\ Sweep # NoCall
    /\ Sweep.exc = "none"
    /\ AllArrondissementsDeclared
    /\ dict_get(Sweep.arg, "arrondissement", PyNone) = PyInt(20)
    /\ Cardinality(OtherArrondissements(Sweep.arg)) = 4
    /\ \E other \in OtherArrondissements(Sweep.arg) :
           "arrondissement" \notin DOMAIN other
    /\ \E i, j \in 1..20 : Sweep.rows[i].Avg_Price_Apt # Sweep.rows[j].Avg_Price_Apt

\* two profiles have the same room_type and the same host_identity_verified,
\* or both lack the field
SameRoomAndIdentity(p, q) ==
    \A k \in {"room_type", "host_identity_verified"} :
        dict_get(p, k, Absent) = dict_get(q, k, Absent)

\* C25: the median_location_price and the baseline_price
\* calculate_price_impact_kpis returned for a profile are those it returns
\* for each profile that differs in the arrondissement only, and the
\* baseline_price is the one it returns for each profile with the same
\* room_type and host_identity_verified, whatever its amenities, superhost
\* flag, listings count, bedrooms, bathrooms and arrondissement.
KpisIgnoreLocationAndQuality ==
    (Kpis # NoCall /\ Kpis.exc = "none") =>
        /\ \A other \in OtherArrondissements(Kpis.arg) :
               \E r \in {calculate_price_impact_kpis(other, Kpis.price)} :
                   /\ r.exc = "none"
                   /\ r.value.median_location_price = Kpis.value.median_location_price
                   /\ r.value.baseline_price = Kpis.value.baseline_price
        /\ \A other \in ProfilesVarying(MaxVariedPredict) :
               SameRoomAndIdentity(other, Kpis.arg) =>
                   \E r \in {calculate_price_impact_kpis(other, Kpis.price)} :
                       /\ r.exc = "none"
                       /\ r.value.baseline_price = Kpis.value.baseline_price

\* the KPIs of a profile, and a profile with the same room type and identity
\* flag whose median-location price is another one
KpisIgnoreLocationAndQualityWitness ==
    /\ Kpis # NoCall
    /\ Kpis.exc = "none"
    /\ \E other \in ProfilesVarying(MaxVariedPredict) :
           /\ SameRoomAndIdentity(other, Kpis.arg)
           /\ calculate_price_impact_kpis(other, Kpis.price).value.median_location_price
                  # Kpis.value.median_location_price
    /\ \E other \in ProfilesVarying(MaxVariedPredict) :
           /\ ~SameRoomAndIdentity(other, Kpis.arg)
           /\ calculate_price_impact_kpis(other, Kpis.price).value.baseline_price
                  # Kpis.value.baseline_price

----------------------------------------------------------------------------
(* The three places that turn the nightly model's output into a price. *)

\* the nightly price run_computations_airbnb stored
StoredNightly == session_state["user_price_prediction"].int

\* the arrondissement of the profile of the calls, 0 when it is not a number
\* of 1..20
OwnArrondissement ==
    LET a == dict_get(user_data, "arrondissement", PyInt(1))
    IN  IF IsPyInt(a) /\ a.int \in 1..20 THEN a.int ELSE 0

\* C26: for a profile of arrondissement n in 1..20, the price of row n of
\* predict_all_arrondissement_prices is the nightly price
\* run_computations_airbnb stored for the profile, and for n the reference
\* arrondissement calculate_price_impact_kpis, called with the stored price,
\* returns location_impact 0.
PricePlacesAgree ==
    (RunAirbnb # NoCall /\ "user_price_prediction" \in DOMAIN session_state
         /\ OwnArrondissement # 0) =>
        /\ (Sweep # NoCall /\ Sweep.exc = "none") =>
               Sweep.rows[OwnArrondissement].Avg_Price_Apt = StoredNightly
        /\ (Kpis # NoCall /\ Kpis.exc = "none" /\ Kpis.price = StoredNightly
                /\ OwnArrondissement = MEDIAN_ARRONDISSEMENT) =>
               Kpis.value.location_impact = 0

\* for a profile of the reference arrondissement the stored price is 99,
\* row 10 of the sweep says 100 and the KPIs, called with 99, a location
\* impact of -1
PricePlacesDisagree ==
    /\ RunAirbnb # NoCall
    /\ Sweep # NoCall
    /\ Kpis # NoCall
    /\ Sweep.exc = "none"
    /\ Kpis.exc = "none"
    /\ OwnArrondissement = MEDIAN_ARRONDISSEMENT
    /\ StoredNightly = 99
    /\ Sweep.rows[OwnArrondissement].Avg_Price_Apt = 100
    /\ Kpis.price = 99
    /\ Kpis.value.location_impact = -1

----------------------------------------------------------------------------
(* The columns of the vectors handed to the nightly model. *)

\* C27: the median-location and baseline vectors calculate_price_impact_kpis
\* hands to the nightly model have the schema's columns in the schema's
\* order, under every schema, as have the 20 vectors of
\* predict_all_arrondissement_prices.
CounterfactualsInSchema ==
    /\ Kpis # NoCall =>
           /\ Kpis.df_median.columns = airbnb_features
           /\ "df_base" \in DOMAIN Kpis => Kpis.df_base.columns = airbnb_features
    /\ (Sweep # NoCall /\ Sweep.exc = "none") =>
           \A n \in 1..20 : Sweep.scored[n].columns = airbnb_features

\* under a schema without the column of arrondissement 10 the median vector
\* ends with that column, appended, and the model rejected it, while the 20
\* vectors of the sweep have the columns of the schema
MedianVectorOutsideSchema ==
    /\ Kpis # NoCall
    /\ Kpis.exc = "ValueError"
    /\ ~DfHas(KpisProfileVector, "Arrondissement_10e")
    /\ Len(Kpis.df_median.columns) = Len(airbnb_features) + 1
    /\ Kpis.df_median.columns[Len(Kpis.df_median.columns)] = "Arrondissement_10e"
    /\ Sweep # NoCall
    /\ Sweep.exc = "none"
    /\ \A n \in 1..20 : Sweep.scored[n].columns = airbnb_features

----------------------------------------------------------------------------
(* The two results run_computations_airbnb stores. *)

\* the session holds both the nightly price and the cleaning cost, or neither
BothOrNeitherStored ==
    "user_price_prediction" \in DOMAIN session_state
        <=> "user_cleaning_cost_prediction" \in DOMAIN session_state

\* C28: run_computations_airbnb stores the nightly price and the cleaning
\* cost together: the session never holds one without the other, and a call
\* that fails (here within a run of the Airbnb page) leaves the session as
\* it was.
NightlyAndCleaningAtomic ==
    /\ []BothOrNeitherStored
    /\ [][(AirbnbPage /\ ret'["airbnb_page"].exc # "none")
              => session_state' = session_state]_vars

\* the cleaning model rejected its frame in a run of the page: the run ended
\* at the exception, and the session holds the nightly price of that call
\* and no cleaning cost
NightlyStoredAlone ==
    /\ AirbnbPageRun # NoCall
    /\ AirbnbPageRun.exc = "ValueError"
    /\ NightlyRaw(AirbnbPageRun.arg).exc = "none"
    /\ CleaningRaw(AirbnbPageRun.arg).exc # "none"
    /\ "user_price_prediction" \in DOMAIN session_state
    /\ "user_cleaning_cost_prediction" \notin DOMAIN session_state
    /\ session_state["user_price_prediction"] =
           PyInt(int_of_float(expm1(round4(NightlyRaw(AirbnbPageRun.arg).value))))

----------------------------------------------------------------------------
(* The session keys of the router. *)

\* a logged-in session is on a dashboard page under a username
LoggedInOnDashboard(ss) ==
    ss["logged_in"] = PyBool(TRUE) =>
        /\ ss["page"] \in {PyStr(p) : p \in DashboardPages}
        /\ ss["username"] # PyNone
        /\ ss["username"] # PyStr("")

\* main() rendered a dashboard page only for a logged-in session
DashboardOnlyLoggedIn(ss, calls) ==
    calls["main"].rendered \in DashboardPages => ss["logged_in"] = PyBool(TRUE)

\* C29: over home, login, sign-up, sidebar and logout steps of two sessions,
\* a logged-in session has a dashboard page as its page and a username; a
\* dashboard page is rendered only for a logged-in session; and logout
\* leaves logged_in false, username None and page home.
SessionRouting ==
    /\ [](/\ LoggedInOnDashboard(session_state)
          /\ LoggedInOnDashboard(peer.session_state)
          /\ DashboardOnlyLoggedIn(session_state, ret)
          /\ DashboardOnlyLoggedIn(peer.session_state, peer.ret))
    /\ [][Logout => /\ session_state'["logged_in"] = PyBool(FALSE)
                    /\ session_state'["username"] = PyNone
                    /\ session_state'["page"] = PyStr("home")]_vars

\* this session has logged out (only logout stores the email key) and sees
\* the home page, while the other is logged in as bob on the comparison page
SessionRoutingWitness ==
    /\ "email" \in DOMAIN session_state
    /\ session_state["logged_in"] = PyBool(FALSE)
    /\ session_state["username"] = PyNone
    /\ session_state["page"] = PyStr("home")
    /\ ret["main"].rendered = "home"
    /\ peer.session_state["logged_in"] = PyBool(TRUE)
    /\ peer.session_state["username"] = PyStr("bob")
    /\ peer.ret["main"].rendered = "Comparison"

----------------------------------------------------------------------------
(* Sign-up and the shared profiles file. *)

\* what a reader of the file gets now
StoredProfiles == load_data(profiles_json)

\* a session has the file open for writing
Writing == ret["login_page"].at = "opened" \/ peer.ret["login_page"].at = "opened"

\* the session's sign-up succeeded
SignedUp(calls) == calls["login_page"].at = "done"

\* the file holds, under the username, the entry the session's sign-up made
Kept(calls) ==
    /\ calls["login_page"].form.new_username \in DOMAIN StoredProfiles
    /\ StoredProfiles[calls["login_page"].form.new_username] =
           signup_entry(calls["login_page"].form)

\* C30: no sign-up overwrites or loses a stored profile: whenever no session
\* is writing the file, the profile each successful sign-up stored is still
\* in the file as that sign-up wrote it, whatever the other session's
\* sign-ups did in between.
SignUpKeepsProfiles ==
    ~Writing =>
        /\ SignedUp(ret) => Kept(ret)
        /\ SignedUp(peer.ret) => Kept(peer.ret)

\* both sessions signed up, under different usernames, both were told the
\* account was created and both are logged in; the file is whole and holds
\* the other session's user but not this one's
SignUpLostProfile ==
    /\ SignedUp(ret) /\ SignedUp(peer.ret)
    /\ ret["login_page"].form.new_username # peer.ret["login_page"].form.new_username
    /\ session_state["logged_in"] = PyBool(TRUE)
    /\ peer.session_state["logged_in"] = PyBool(TRUE)
    /\ "data" \in DOMAIN profiles_json
    /\ Kept(peer.ret)
    /\ ret["login_page"].form.new_username \notin DOMAIN StoredProfiles

====
